---- MODULE Spec2Model ----
(***************************************************************************)
(* A model of prusa_exporter's UDP telemetry pipeline (package udp):       *)
(* process -> processMessage -> parseLineProtocol -> registerMetric, and   *)
(* the metric catalog registryMetrics that registerMetric guards with a    *)
(* mutex; of the start of the exporter (Run of cmd/main.go, udp.Init); of  *)
(* the syslog server that feeds the pipeline; and of package prusalink's   *)
(* EnableUDPmetrics and Collector.Collect, one goroutine per printer.      *)
(*                                                                         *)
(* Strings are sequences of characters, each character a one-character     *)
(* TLA+ string.  A symbol of more than one character ("prusa_",            *)
(* "last_push", "printer_mac", ...) abbreviates that run of letters,       *)
(* digits and underscores; it holds none of the characters the code looks  *)
(* for (space, comma, '=', '"', '\', ':', newline, a final 'i') and no two   *)
(* symbol sequences of the model spell the same string.                    *)
(***************************************************************************)
EXTENDS Integers, Sequences, FiniteSets, TLC

VARIABLES
    metrics,      \* registryMetrics.metrics: metric name -> *GaugeVec
    labels,       \* registryMetrics.labels: metric name -> label names
    mu,           \* registryMetrics.mu: the tasks inside Lock() ... Unlock()
    registered,   \* names claimed in udpRegistry (prometheus.Registry)
    series,       \* the samples: <<family id, label values>> -> value
    nextId,       \* identity of the next GaugeVec allocated
    now,          \* time.Now().Unix()
    tasks,        \* the process() calls, one per delivered envelope: its position
                  \* and its locals (reg: how the call got its family)
    received,     \* number of envelopes delivered so far
    crashed,      \* "no", or the function whose panic ended the process
    regOK,        \* history: metric name -> successful Register calls
    regFail,      \* history: metric name -> Register calls that returned an error
    pin,          \* the input: a line, a message body, or what the printers send
    pout,         \* the output of the pure functions
    initpc,       \* udp.Init: "start" before the call, "registry" after line 34,
                  \* "registered" after line 36, "done" after line 41
    srv,          \* the syslog server: its socket, its receive loop, the calls of
                  \* Wait, the envelopes on the delivery channel
    udpEnable,    \* a call of prusalink.EnableUDPmetrics: its goroutines, the
                  \* requests each made, configuration.Printers[i].UDPMetricsEnabled
    scrape        \* a call of Collector.Collect: its goroutines and the samples
                  \* sent on ch

vars == <<metrics, labels, mu, registered, series, nextId, now, tasks,
          received, crashed, regOK, regFail, pin, pout, initpc, srv, udpEnable, scrape>>

regVars == <<metrics, labels, mu, registered, series, nextId, regOK, regFail>>

-----------------------------------------------------------------------------
(* Bounds of the model. *)

\* datagrams delivered in one behaviour, each delivered once and handled by
\* its own process() call
MaxEnvelopes == 2
\* largest value of the clock
MaxTime == 1
\* pieces of the vocabulary concatenated into one input line
MaxPieces == 4
\* largest magnitude of the integers written as field values and coerced
MaxNumber == 12
\* goroutines that call Wait on the syslog server
MaxWaiters == 3
\* envelopes the delivery channel holds before a push blocks
MaxQueue == 2
\* characters of a string given to splitLine
MaxSplitLen == 5
\* configured printers
MaxPrinters == 2

-----------------------------------------------------------------------------
(* strings: the functions of package strings the code calls *)

RECURSIVE Flatten(_)
Flatten(ss) == IF ss = <<>> THEN <<>> ELSE Head(ss) \o Flatten(Tail(ss))

Has(s, c) == \E i \in 1..Len(s) : s[i] = c

\* strings.Index(s, c), 1-based; 0 when c is not in s
RECURSIVE IndexFrom(_, _, _)
IndexFrom(s, c, i) == IF i > Len(s) THEN 0
                      ELSE IF s[i] = c THEN i
                      ELSE IndexFrom(s, c, i + 1)
Index(s, c) == IndexFrom(s, c, 1)

\* a split that leaves the separators between double quotes alone
RECURSIVE IndexOutsideQuotes(_, _, _, _)
IndexOutsideQuotes(s, c, i, quoted) ==
    IF i > Len(s) THEN 0
    ELSE IF s[i] = "\"" THEN IndexOutsideQuotes(s, c, i + 1, ~quoted)
    ELSE IF s[i] = c /\ ~quoted THEN i
    ELSE IndexOutsideQuotes(s, c, i + 1, quoted)

RECURSIVE SplitOutsideQuotes(_, _)
SplitOutsideQuotes(s, c) ==
    LET i == IndexOutsideQuotes(s, c, 1, FALSE)
    IN IF i = 0 THEN <<s>>
       ELSE <<SubSeq(s, 1, i - 1)>> \o SplitOutsideQuotes(SubSeq(s, i + 1, Len(s)), c)

\* strings.Split(s, c) for a one-character separator: never empty
RECURSIVE Split(_, _)
Split(s, c) ==
    IF Index(s, c) = 0 THEN <<s>>
    ELSE <<SubSeq(s, 1, Index(s, c) - 1)>> \o Split(SubSeq(s, Index(s, c) + 1, Len(s)), c)

\* strings.SplitN(s, c, 2)
SplitN2(s, c) ==
    IF Index(s, c) = 0 THEN <<s>>
    ELSE <<SubSeq(s, 1, Index(s, c) - 1), SubSeq(s, Index(s, c) + 1, Len(s))>>

\* strings.Join(parts, c)
RECURSIVE Join(_, _)
Join(parts, c) ==
    IF parts = <<>> THEN <<>>
    ELSE IF Len(parts) = 1 THEN parts[1]
    ELSE parts[1] \o <<c>> \o Join(Tail(parts), c)

HasPrefix(s, c) == Len(s) >= 1 /\ s[1] = c
HasSuffix(s, c) == Len(s) >= 1 /\ s[Len(s)] = c

-----------------------------------------------------------------------------
(* strconv: ParseInt, ParseBool, ParseFloat *)

Digits == {"0", "1", "2", "3", "4", "5", "6", "7", "8", "9"}

DigitVal(c) == CASE c = "0" -> 0 [] c = "1" -> 1 [] c = "2" -> 2 [] c = "3" -> 3
                 [] c = "4" -> 4 [] c = "5" -> 5 [] c = "6" -> 6 [] c = "7" -> 7
                 [] c = "8" -> 8 [] c = "9" -> 9

AllDigits(s) == \A i \in 1..Len(s) : s[i] \in Digits

RECURSIVE DecVal(_)
DecVal(s) == IF s = <<>> THEN 0 ELSE 10 * DecVal(SubSeq(s, 1, Len(s) - 1)) + DigitVal(s[Len(s)])

Signed(s) == Len(s) >= 1 /\ s[1] \in {"+", "-"}
Unsign(s) == IF Signed(s) THEN Tail(s) ELSE s
SignOf(s) == IF Len(s) >= 1 /\ s[1] = "-" THEN -1 ELSE 1

\* strconv.ParseInt(s, 10, 64): a sign, then one or more decimal digits, in the
\* range of int64.  The digit runs of the model's inputs are a few characters
\* long, far inside that range, so the range test is never the one that decides.
ParseIntOK(s) == /\ Len(Unsign(s)) >= 1
                 /\ AllDigits(Unsign(s))
ParseIntVal(s) == SignOf(s) * DecVal(Unsign(s))

sTrue == <<"t", "r", "u", "e">>
sFalse == <<"f", "a", "l", "s", "e">>

\* strconv.ParseBool: 1, t, T, TRUE, true, True, 0, f, F, FALSE, false, False
BoolTrue == {<<"1">>, <<"t">>, <<"T">>, <<"T", "R", "U", "E">>, sTrue, <<"T", "r", "u", "e">>}
BoolFalse == {<<"0">>, <<"f">>, <<"F">>, <<"F", "A", "L", "S", "E">>, sFalse,
              <<"F", "a", "l", "s", "e">>}
ParseBoolOK(s) == s \in BoolTrue \cup BoolFalse
ParseBoolVal(s) == s \in BoolTrue

\* A float64 is kept exactly, as <<n, e>> for n / 10^e, with e as small as can be.
RECURSIVE NormF(_, _)
NormF(n, e) == IF e > 0 /\ n % 10 = 0 THEN NormF(n \div 10, e - 1) ELSE <<n, e>>

Num(n) == <<n, 0>>

\* strconv.ParseFloat(s, 64) on the decimal forms: [sign] digits [. digits] and
\* [sign] . digits.  The other forms it accepts (an exponent, hexadecimal, inf,
\* infinity, nan) need letters that no value of the model's inputs holds next to
\* digits; a string with any other character is refused, as ParseFloat does.
IntPart(s) == IF Index(s, ".") = 0 THEN s ELSE SubSeq(s, 1, Index(s, ".") - 1)
FracPart(s) == IF Index(s, ".") = 0 THEN <<>> ELSE SubSeq(s, Index(s, ".") + 1, Len(s))
ParseFloatOK(s) == /\ AllDigits(IntPart(Unsign(s)))
                   /\ AllDigits(FracPart(Unsign(s)))
                   /\ Len(IntPart(Unsign(s))) + Len(FracPart(Unsign(s))) >= 1
ParseFloatVal(s) ==
    NormF(SignOf(s) * DecVal(IntPart(Unsign(s)) \o FracPart(Unsign(s))),
          Len(FracPart(Unsign(s))))

-----------------------------------------------------------------------------
(* transform.go: the line protocol parser *)

\* the scanner without the backslash: a quote always opens or closes
RECURSIVE splitLineNoEscape(_, _, _, _, _)
splitLineNoEscape(s, i, start, state, r) ==
    IF i > Len(s)
    THEN IF start <= Len(s) THEN Append(r, SubSeq(s, start, Len(s))) ELSE r
    ELSE IF state = "Normal"
    THEN CASE s[i] = " " ->
                splitLineNoEscape(s, i + 1, i + 1, "Normal",
                                  IF start < i THEN Append(r, SubSeq(s, start, i - 1)) ELSE r)
           [] s[i] = "\"" -> splitLineNoEscape(s, i + 1, start, "QuotedString", r)
           [] OTHER -> splitLineNoEscape(s, i + 1, start, "Normal", r)
    ELSE CASE s[i] = "\"" -> splitLineNoEscape(s, i + 1, start, "Normal", r)
           [] OTHER -> splitLineNoEscape(s, i + 1, start, "QuotedString", r)

\* splitLine's scanner from position i (1-based); start is the first character
\* of the segment being read, state is "Normal" or "QuotedString".
RECURSIVE splitLineFrom(_, _, _, _, _)
splitLineFrom(s, i, start, state, r) ==
    IF i > Len(s)
    THEN IF start <= Len(s) THEN Append(r, SubSeq(s, start, Len(s))) ELSE r
    ELSE IF state = "Normal"
    THEN CASE s[i] = " " ->
                splitLineFrom(s, i + 1, i + 1, "Normal",
                              IF start < i THEN Append(r, SubSeq(s, start, i - 1)) ELSE r)
           [] s[i] = "\\" -> splitLineFrom(s, i + 2, start, "Normal", r)
           [] s[i] = "\"" -> splitLineFrom(s, i + 1, start, "QuotedString", r)
           [] OTHER -> splitLineFrom(s, i + 1, start, "Normal", r)
    ELSE CASE s[i] = "\\" -> splitLineFrom(s, i + 2, start, "QuotedString", r)
           [] s[i] = "\"" -> splitLineFrom(s, i + 1, start, "Normal", r)
           [] OTHER -> splitLineFrom(s, i + 1, start, "QuotedString", r)

splitLine(s) == splitLineFrom(s, 1, 1, "Normal", <<>>)

\* The typed value of one field, lines 146-169: [type, i, b, f, s], or a panic.
NoVal == [type |-> "nil", i |-> 0, b |-> FALSE, f |-> Num(0), s |-> <<>>]
IntVal(n) == [NoVal EXCEPT !.type = "int64", !.i = n]
BoolVal(b) == [NoVal EXCEPT !.type = "bool", !.b = b]
FloatVal(f) == [NoVal EXCEPT !.type = "float64", !.f = f]
StringVal(s) == [NoVal EXCEPT !.type = "string", !.s = s]
PanicVal == [NoVal EXCEPT !.type = "panic"]

\* val[1 : len(val)-1] of line 164: with len(val) = 1 the bounds are [1:0] and the
\* slice expression panics (slice bounds out of range).
parseValue(val) ==
    IF HasSuffix(val, "i") /\ ParseIntOK(SubSeq(val, 1, Len(val) - 1))
    THEN IntVal(ParseIntVal(SubSeq(val, 1, Len(val) - 1)))
    ELSE IF ParseBoolOK(val) THEN BoolVal(ParseBoolVal(val))
    ELSE IF ParseFloatOK(val) THEN FloatVal(ParseFloatVal(val))
    ELSE IF HasPrefix(val, "\"") /\ HasSuffix(val, "\"")
    THEN IF Len(val) < 2 THEN PanicVal ELSE StringVal(SubSeq(val, 2, Len(val) - 1))
    ELSE StringVal(val)

\* m[k] = v of a Go map: the last assignment to a key wins
MapPut(m, k, v) == [x \in DOMAIN m \cup {k} |-> IF x = k THEN v ELSE m[x]]
EmptyMap == [x \in {} |-> <<>>]

\* The tag loop, lines 125-132, over measurementTagParts[i..]:
\* [ok, tags]; ok is FALSE at the first tag without "=".
RECURSIVE parseTags(_, _, _)
parseTags(parts, i, tags) ==
    IF i > Len(parts) THEN [ok |-> TRUE, tags |-> tags]
    ELSE IF Len(SplitN2(parts[i], "=")) # 2 THEN [ok |-> FALSE, tags |-> tags]
    ELSE parseTags(parts, i + 1,
                   MapPut(tags, SplitN2(parts[i], "=")[1], SplitN2(parts[i], "=")[2]))

\* The field loop, lines 136-170: [kind, fields]; kind is "ok", "error" at the
\* first field without "=", "panic" at the first value whose typing panics.
RECURSIVE parseFields(_, _, _)
parseFields(parts, i, fields) ==
    IF i > Len(parts) THEN [kind |-> "ok", fields |-> fields]
    ELSE IF Len(SplitN2(parts[i], "=")) # 2 THEN [kind |-> "error", fields |-> fields]
    ELSE IF parseValue(SplitN2(parts[i], "=")[2]) = PanicVal
    THEN [kind |-> "panic", fields |-> fields]
    ELSE parseFields(parts, i + 1,
                     MapPut(fields, SplitN2(parts[i], "=")[1],
                            parseValue(SplitN2(parts[i], "=")[2])))

NoPoint == [kind |-> "none", err |-> "", Measurement |-> <<>>, Tags |-> EmptyMap,
            Fields |-> EmptyMap]
ErrorResult(e) == [NoPoint EXCEPT !.kind = "error", !.err = e]
PanicResult == [NoPoint EXCEPT !.kind = "panic"]

\* a third segment that is no decimal integer refused
parseLineProtocolChecked(line) ==
    LET parts == splitLine(line) IN
    IF Len(parts) < 2 \/ Len(parts) > 3 THEN ErrorResult("invalid udp format")
    ELSE IF Len(parts) = 3 /\ ~ParseIntOK(parts[3]) THEN ErrorResult("invalid timestamp")
    ELSE LET measurementTagParts == Split(parts[1], ",")
             t == parseTags(measurementTagParts, 2, EmptyMap)
             f == parseFields(Split(parts[2], ","), 1, EmptyMap)
         IN IF ~t.ok THEN ErrorResult("invalid tag format")
            ELSE IF f.kind = "error" THEN ErrorResult("invalid field format")
            ELSE IF f.kind = "panic" THEN PanicResult
            ELSE [NoPoint EXCEPT !.kind = "point",
                                 !.Measurement = measurementTagParts[1],
                                 !.Tags = t.tags, !.Fields = f.fields]

\* parseLineProtocol: a point, an error, or a panic of the goroutine; parts[2],
\* the third segment, is read nowhere
parseLineProtocol(line) ==
    LET parts == splitLine(line) IN
    IF Len(parts) < 2 \/ Len(parts) > 3 THEN ErrorResult("invalid udp format")
    ELSE LET measurementTagParts == Split(parts[1], ",")
             t == parseTags(measurementTagParts, 2, EmptyMap)
             f == parseFields(Split(parts[2], ","), 1, EmptyMap)
         IN IF ~t.ok THEN ErrorResult("invalid tag format")
            ELSE IF f.kind = "error" THEN ErrorResult("invalid field format")
            ELSE IF f.kind = "panic" THEN PanicResult
            ELSE [NoPoint EXCEPT !.kind = "point",
                                 !.Measurement = measurementTagParts[1],
                                 !.Tags = t.tags, !.Fields = f.fields]

-----------------------------------------------------------------------------
(* transform.go: the frame decomposer *)

\* A value of format.LogParts (map[string]interface{}): a string, or anything
\* else (a missing key reads as nil, a number, ...).
GoString(s) == [isString |-> TRUE, s |-> s]
NotAString == [isString |-> FALSE, s |-> <<>>]

sPrinterMac == <<",", "printer_mac", "=">>
sPrinterAddress == <<",", "printer_address", "=">>

\* strings.Split(ip, ":")[0]
HostPart(ip) == Split(ip, ":")[1]

\* the hostname checked, the client taken as it comes
processIdentifiersHostOnly(data) ==
    IF ~data.hostname.isString THEN [ok |-> FALSE, mac |-> <<>>, ip |-> <<>>]
    ELSE [ok |-> TRUE, mac |-> data.hostname.s, ip |-> data.client.s]

\* processIdentifiers: the .(string) assertions with ok
processIdentifiers(data) ==
    IF ~data.hostname.isString THEN [ok |-> FALSE, mac |-> <<>>, ip |-> <<>>]
    ELSE IF ~data.client.isString THEN [ok |-> FALSE, mac |-> <<>>, ip |-> <<>>]
    ELSE [ok |-> TRUE, mac |-> data.hostname.s, ip |-> data.client.s]

\* parseFirstMessage: strings.Split never returns an empty slice, so the error
\* branch is dead and splitted[1:] is always defined
parseFirstMessage(message) == Join(Tail(Split(message, " ")), " ")

\* the identity tags put right after the measurement name, before the tags
updateMetricInsert(splitted, prefix, mac, ip) ==
    IF Len(splitted) = 0 THEN [ok |-> FALSE, splitted |-> splitted]
    ELSE [ok |-> TRUE,
          splitted |-> [splitted EXCEPT ![1] =
              prefix \o Split(splitted[1], ",")[1] \o sPrinterMac \o mac
              \o sPrinterAddress \o HostPart(ip)
              \o SubSeq(splitted[1], Len(Split(splitted[1], ",")[1]) + 1, Len(splitted[1]))]]

\* updateMetric: Sprintf("%s%s,printer_mac=%s,printer_address=%s", prefix,
\* splitted[0], mac, host)
updateMetric(splitted, prefix, mac, ip) ==
    IF Len(splitted) = 0 THEN [ok |-> FALSE, splitted |-> splitted]
    ELSE [ok |-> TRUE,
          splitted |-> [splitted EXCEPT ![1] =
              prefix \o splitted[1] \o sPrinterMac \o mac \o sPrinterAddress \o HostPart(ip)]]

\* the loop of lines 76-84 on one line
rewriteLine(line, prefix, mac, ip) ==
    LET u == updateMetric(Split(line, " "), prefix, mac, ip)
    IN IF u.ok THEN Join(u.splitted, " ") ELSE line

\* line 0 stripped but left in its place
rotateInPlace(messageSplit) == <<parseFirstMessage(messageSplit[1])>> \o Tail(messageSplit)

\* append(messageSplit[1:], firstMessage), line 74
rotate(messageSplit) == Append(Tail(messageSplit), parseFirstMessage(messageSplit[1]))

\* processMessage: the rewritten lines, in the order the loop of process reads them
processMessage(message, mac, prefix, ip) ==
    LET messageSplit == rotate(Split(message, "\n"))
    IN [i \in 1..Len(messageSplit) |-> rewriteLine(messageSplit[i], prefix, mac, ip)]

-----------------------------------------------------------------------------
(* prometheus.go: the value coercer and the registry *)

sPLA == <<"P", "L", "A">>
sPETG == <<"P", "E", "T", "G">>
sASA == <<"A", "S", "A">>
sPC == <<"P", "C">>
sPVB == <<"P", "V", "B">>
sABS == <<"A", "B", "S">>
sHIPS == <<"H", "I", "P", "S">>
sPP == <<"P", "P">>
sFLEX == <<"F", "L", "E", "X">>
sPA == <<"P", "A">>
sNone == <<"-", "-", "-">>

\* the type switch without its case bool
toFloat64NoBool(value) ==
    CASE value.type = "int" -> Num(value.i)
      [] value.type = "int64" -> Num(value.i)
      [] value.type = "float64" -> value.f
      [] value.type = "nil" -> Num(0)
      [] value.type = "string" ->
            CASE value.s = sPLA -> Num(1)
              [] value.s = sPETG -> Num(2)
              [] value.s = sASA -> Num(3)
              [] value.s = sPC -> Num(4)
              [] value.s = sPVB -> Num(5)
              [] value.s = sABS -> Num(6)
              [] value.s = sHIPS -> Num(7)
              [] value.s = sPP -> Num(8)
              [] value.s = sFLEX -> Num(9)
              [] value.s = sPA -> Num(10)
              [] value.s = sNone -> Num(-1)
              [] OTHER -> Num(0)
      [] OTHER -> Num(0)

\* the type switch without the special case of "---"
toFloat64NoSpecial(value) ==
    CASE value.type = "int" -> Num(value.i)
      [] value.type = "int64" -> Num(value.i)
      [] value.type = "float64" -> value.f
      [] value.type = "bool" -> IF value.b THEN Num(1) ELSE Num(0)
      [] value.type = "nil" -> Num(0)
      [] value.type = "string" ->
            CASE value.s = sPLA -> Num(1)
              [] value.s = sPETG -> Num(2)
              [] value.s = sASA -> Num(3)
              [] value.s = sPC -> Num(4)
              [] value.s = sPVB -> Num(5)
              [] value.s = sABS -> Num(6)
              [] value.s = sHIPS -> Num(7)
              [] value.s = sPP -> Num(8)
              [] value.s = sFLEX -> Num(9)
              [] value.s = sPA -> Num(10)
              [] OTHER -> Num(0)
      [] OTHER -> Num(0)

\* toFloat64: the type switch of lines 96-140
toFloat64(value) ==
    CASE value.type = "int" -> Num(value.i)
      [] value.type = "int64" -> Num(value.i)
      [] value.type = "float64" -> value.f
      [] value.type = "bool" -> IF value.b THEN Num(1) ELSE Num(0)
      [] value.type = "nil" -> Num(0)
      [] value.type = "string" ->
            CASE value.s = sPLA -> Num(1)
              [] value.s = sPETG -> Num(2)
              [] value.s = sASA -> Num(3)
              [] value.s = sPC -> Num(4)
              [] value.s = sPVB -> Num(5)
              [] value.s = sABS -> Num(6)
              [] value.s = sHIPS -> Num(7)
              [] value.s = sPP -> Num(8)
              [] value.s = sFLEX -> Num(9)
              [] value.s = sPA -> Num(10)
              [] value.s = sNone -> Num(-1)
              [] OTHER -> Num(0)
      [] OTHER -> Num(0)

\* every order of the elements of S: what ranging over a Go map can yield
RECURSIVE Orders(_)
Orders(S) == IF S = {} THEN {<<>>}
             ELSE UNION {{<<x>> \o q : q \in Orders(S \ {x})} : x \in S}

\* getLabels: the tag keys, in the order the range over the map yields them
getLabels(tags) == Orders(DOMAIN tags)

\* the metric name of one field, lines 48-53
metricNameOf(measurement, key) ==
    IF key # <<"v">> /\ key # <<"v", "a", "l", "u", "e">>
    THEN measurement \o <<"_">> \o key
    ELSE measurement

\* m[k] of a Go map of strings or slices: the zero value for a missing key
MapGet(m, k) == IF k \in DOMAIN m THEN m[k] ELSE <<>>
Count(m, k) == IF k \in DOMAIN m THEN m[k] ELSE 0

NoMetric == [id |-> -1, name |-> <<>>, labelNames |-> <<>>]

\* prometheus.NewGaugeVec(GaugeOpts{Name: metricName}, tagLabels)
NewGaugeVec(id, metricName, tagLabels) ==
    [id |-> id, name |-> metricName, labelNames |-> tagLabels]

\* udpRegistry.Register(metric) == nil: the name is not claimed yet
RegisterOK(metric) == metric.name \notin registered

\* a lookup that always misses
existsInCatalogNever(metricName) == FALSE

\* lines 56-57: the family of the catalog is taken when the name is in it
existsInCatalog(metricName) == metricName \in DOMAIN metrics

\* a lock that lets every caller in
mutexNotTaken == TRUE

\* sync.Mutex: Lock() returns only when no other call is between Lock() and Unlock()
mutexFree == mu = {}

\* lines 74-79: the label values, one per label name of the catalog's schema
labelValues(names, tags) == [i \in 1..Len(names) |-> MapGet(tags, names[i])]

\* WithLabelValues(lvs...) panics unless it gets one value per label name
WithLabelValuesOK(metric, lvs) == Len(lvs) = Len(metric.labelNames)

\* Add in the place of Set: the sample accumulates
SetSeriesAdd(metric, lvs, value) ==
    MapPut(series, <<metric.id, lvs>>,
           IF <<metric.id, lvs>> \in DOMAIN series
           THEN <<series[<<metric.id, lvs>>][1] + value[1], value[2]>>
           ELSE value)

SetSeries(metric, lvs, value) == MapPut(series, <<metric.id, lvs>>, value)

\* the source address with its port
pushLabelsRaw(mac, ip) == <<mac, ip>>

\* the label values of line 25
pushLabels(mac, ip) == <<mac, HostPart(ip)>>

-----------------------------------------------------------------------------
(* The pipeline: every delivered envelope is handled by its own process()
   call; the calls interleave at the steps that touch shared state. *)

NoTask == [pc |-> "ident", mac |-> <<>>, ip |-> <<>>, lines |-> <<>>,
           point |-> NoPoint, todo |-> {}, key |-> <<>>, metricName |-> <<>>,
           metric |-> NoMetric, lvs |-> <<>>, reg |-> "none"]

\* a call that returned: its locals are gone
Done(task) == [NoTask EXCEPT !.pc = "done"]

Macs == {<<"A">>, <<"B">>}
Prefixes == {<<>>, <<"prusa_">>}
Clients == {<<"h", ":", "9">>, <<"g">>}

NoInput == [op |-> "none", text |-> <<>>, mac |-> <<>>, prefix |-> <<>>, ip |-> <<>>,
            envelopes |-> {}, n |-> 0, value |-> NoVal]
NoOutput == [done |-> FALSE, point |-> NoPoint, lines |-> <<>>, samples |-> EmptyMap,
             f |-> Num(0)]

\* the state after udp.Init: lastPush registered, the catalog holding last_push
sLastPush == <<"last_push">>
sLastPushTimestamp == <<"prusa_", "last_push_timestamp">>
lastPush == [id |-> 0, name |-> sLastPushTimestamp,
             labelNames |-> << <<"printer_mac">>, <<"printer_address">> >>]

\* the syslog server before startSyslogServer
Waiters == 1..MaxWaiters
NoServer == [socket |-> "none", loop |-> "none", killed |-> FALSE, queue |-> 0,
             waits |-> [w \in Waiters |-> "idle"]]

\* the printers of the configuration, by their index in configuration.Printers
PrinterIds == 1..MaxPrinters

\* EnableUDPmetrics before it is called: no goroutine yet
NoCall == [pc |-> "none", requests |-> <<>>, upload |-> "none", start |-> "none"]
NoEnable == [pc |-> "idle", next |-> 1, wg |-> 0,
             flag |-> [i \in PrinterIds |-> FALSE],
             call |-> [i \in PrinterIds |-> NoCall]]

\* Collect before it is called; ch[i] is what the goroutine of printer i has
\* sent on ch
NoScrapeCall == [pc |-> "none", printing |-> FALSE, failed |-> "none", partial |-> FALSE]
NoScrape == [pc |-> "idle", next |-> 1, wg |-> 0, disabled |-> {},
             ch |-> [i \in PrinterIds |-> <<>>],
             call |-> [i \in PrinterIds |-> NoScrapeCall]]

InitRegistry ==
    /\ metrics = [n \in {sLastPush} |-> lastPush]
    /\ labels = EmptyMap
    /\ mu = {}
    /\ registered = {sLastPushTimestamp}
    /\ series = EmptyMap
    /\ nextId = 1
    /\ regOK = EmptyMap
    /\ regFail = EmptyMap
    /\ now = 0
    /\ tasks = EmptyMap
    /\ received = 0
    /\ crashed = "no"

Running == crashed = "no"

\* the listener hands a decoded envelope to a new process() call
Receive(e) ==
    /\ Running
    /\ received < MaxEnvelopes
    /\ e \notin DOMAIN tasks
    /\ received' = received + 1
    /\ tasks' = MapPut(tasks, e, NoTask)
    /\ UNCHANGED <<regVars, now, crashed, pin, pout, initpc, srv, udpEnable, scrape>>

\* time passes; the clock is read at line 25 only, so the model lets it
\* advance only when a call is about to read it
Tick ==
    /\ Running
    /\ now < MaxTime
    /\ \E t \in DOMAIN tasks : tasks[t].pc = "ident"
    /\ now' = now + 1
    /\ UNCHANGED <<regVars, tasks, received, crashed, pin, pout, initpc, srv, udpEnable, scrape>>

\* process, lines 20-25: the identifiers, then the last push gauge
Identify(t) ==
    /\ Running
    /\ tasks[t].pc = "ident"
    /\ LET id == processIdentifiers(t) IN
       IF ~id.ok
       THEN /\ tasks' = [tasks EXCEPT ![t] = Done(tasks[t])]
            /\ UNCHANGED series
       ELSE /\ tasks' = [tasks EXCEPT ![t].pc = "message", ![t].mac = id.mac,
                                      ![t].ip = id.ip]
            /\ series' = SetSeries(lastPush, pushLabels(id.mac, id.ip), Num(now))
    /\ UNCHANGED <<metrics, labels, mu, registered, nextId, regOK, regFail,
                   now, received, crashed, pin, pout, initpc, srv, udpEnable, scrape>>

\* process, lines 28-32: data["message"].(string) panics unless it is a string
Decompose(t) ==
    /\ Running
    /\ tasks[t].pc = "message"
    /\ IF ~t.message.isString
       THEN /\ crashed' = "process"
            /\ tasks' = [tasks EXCEPT ![t].pc = "panic"]
       ELSE /\ tasks' = [tasks EXCEPT ![t].pc = "line",
                            ![t].lines = processMessage(t.message.s,
                                             tasks[t].mac, pin.prefix, tasks[t].ip)]
            /\ UNCHANGED crashed
    /\ UNCHANGED <<regVars, now, received, pin, pout, initpc, srv, udpEnable, scrape>>

\* process, lines 34-43: one turn of the loop up to the call of registerMetric
ParseLine(t) ==
    /\ Running
    /\ tasks[t].pc = "line"
    /\ IF tasks[t].lines = <<>>
       THEN /\ tasks' = [tasks EXCEPT ![t] = Done(tasks[t])]
            /\ UNCHANGED crashed
       ELSE LET p == parseLineProtocol(Head(tasks[t].lines)) IN
            CASE p.kind = "panic" ->
                    /\ crashed' = "parseLineProtocol"
                    /\ tasks' = [tasks EXCEPT ![t].pc = "panic"]
              [] p.kind = "error" ->
                    /\ tasks' = [tasks EXCEPT ![t].lines = Tail(tasks[t].lines)]
                    /\ UNCHANGED crashed
              [] OTHER ->
                    /\ tasks' = [tasks EXCEPT ![t].lines = Tail(tasks[t].lines),
                                              ![t].point = p,
                                              ![t].todo = DOMAIN p.Fields,
                                              ![t].pc = "lock"]
                    /\ UNCHANGED crashed
    /\ UNCHANGED <<regVars, now, received, pin, pout, initpc, srv, udpEnable, scrape>>

\* registerMetric, lines 47-57: the next field of the range, its metric name,
\* registryMetrics.mu.Lock(), then the lookup in the catalog
Lock(t) ==
    /\ Running
    /\ tasks[t].pc = "lock"
    /\ mutexFree
    /\ mu' = mu \cup {t}
    /\ \E key \in tasks[t].todo :
          LET metricName == metricNameOf(tasks[t].point.Measurement, key) IN
          tasks' = [tasks EXCEPT ![t].key = key, ![t].metricName = metricName,
                       ![t].pc = IF existsInCatalog(metricName) THEN "get" ELSE "create"]
    /\ UNCHANGED <<metrics, labels, registered, series, nextId, regOK, regFail,
                   now, received, crashed, pin, pout, initpc, srv, udpEnable, scrape>>

\* the family found and the label values resolved, the mutex kept across Set
GetKeepsLock(t) ==
    /\ Running
    /\ tasks[t].pc = "get"
    /\ t \in mu
    /\ UNCHANGED mu
    /\ tasks' = [tasks EXCEPT ![t].pc = "set", ![t].reg = "found",
                    ![t].metric = metrics[tasks[t].metricName],
                    ![t].lvs = labelValues(MapGet(labels, tasks[t].metricName),
                                           tasks[t].point.Tags)]
    /\ UNCHANGED <<metrics, labels, registered, series, nextId, regOK, regFail,
                   now, received, crashed, pin, pout, initpc, srv, udpEnable, scrape>>

\* registerMetric, lines 57 and 74-81: the family of the catalog, the label
\* values, then registryMetrics.mu.Unlock()
Get(t) ==
    /\ Running
    /\ tasks[t].pc = "get"
    /\ t \in mu
    /\ mu' = mu \ {t}
    /\ tasks' = [tasks EXCEPT ![t].pc = "set", ![t].reg = "found",
                    ![t].metric = metrics[tasks[t].metricName],
                    ![t].lvs = labelValues(MapGet(labels, tasks[t].metricName),
                                           tasks[t].point.Tags)]
    /\ UNCHANGED <<metrics, labels, registered, series, nextId, regOK, regFail,
                   now, received, crashed, pin, pout, initpc, srv, udpEnable, scrape>>

\* registerMetric, lines 59-72, before udp.Init has returned.  udpRegistry is
\* written at line 34 outside the mutex, so a call that runs after line 34 and
\* before the locked lines 37-41 reads either nil or the registry.  With nil,
\* udpRegistry.Register dereferences a nil *Registry at line 67; with the
\* registry, Register and the write of line 71 go through and line 72 writes
\* to the nil map registryMetrics.labels.  Both panic.
CreateEarly(t) ==
    /\ crashed' = "registerMetric"
    /\ tasks' = [tasks EXCEPT ![t].pc = "panic"]
    /\ nextId' = nextId + 1
    /\ UNCHANGED <<mu, labels>>
    /\ \/ UNCHANGED <<metrics, registered, regOK, regFail>>
       \/ /\ initpc # "start"
          /\ \E tagLabels \in getLabels(tasks[t].point.Tags) :
                LET metricName == tasks[t].metricName
                    metric == NewGaugeVec(nextId, metricName, tagLabels)
                IN /\ IF RegisterOK(metric)
                      THEN /\ registered' = registered \cup {metric.name}
                           /\ regOK' = MapPut(regOK, metricName,
                                              Count(regOK, metricName) + 1)
                           /\ UNCHANGED regFail
                      ELSE /\ regFail' = MapPut(regFail, metricName,
                                                Count(regFail, metricName) + 1)
                           /\ UNCHANGED <<registered, regOK>>
                   /\ metrics' = MapPut(metrics, metricName, metric)

\* the error of Register propagated: Unlock() and return, the family dropped
CreateReturnsOnConflict(t) ==
    /\ Running
    /\ tasks[t].pc = "create"
    /\ t \in mu
    /\ IF initpc # "done" THEN CreateEarly(t)
       ELSE
       /\ mu' = mu \ {t}
       /\ UNCHANGED crashed
       /\ \E tagLabels \in getLabels(tasks[t].point.Tags) :
          LET metricName == tasks[t].metricName
              metric == NewGaugeVec(nextId, metricName, tagLabels)
          IN /\ nextId' = nextId + 1
             /\ IF RegisterOK(metric)
                THEN /\ registered' = registered \cup {metric.name}
                     /\ regOK' = MapPut(regOK, metricName, Count(regOK, metricName) + 1)
                     /\ metrics' = MapPut(metrics, metricName, metric)
                     /\ labels' = MapPut(labels, metricName, tagLabels)
                     /\ tasks' = [tasks EXCEPT ![t].pc = "set", ![t].metric = metric,
                                     ![t].reg = "ok",
                                     ![t].lvs = labelValues(tagLabels, tasks[t].point.Tags)]
                     /\ UNCHANGED regFail
                ELSE /\ regFail' = MapPut(regFail, metricName, Count(regFail, metricName) + 1)
                     /\ tasks' = [tasks EXCEPT ![t].pc = "line", ![t].point = NoPoint,
                                     ![t].todo = {}, ![t].key = <<>>,
                                     ![t].metricName = <<>>]
                     /\ UNCHANGED <<registered, regOK, metrics, labels>>
    /\ UNCHANGED <<series, now, received, pin, pout, initpc, srv, udpEnable, scrape>>

\* registerMetric, lines 59-81: a new family with the point's tag keys as its
\* label names, its registration (an error is only logged), the catalog
\* entries, the label values, then registryMetrics.mu.Unlock()
Create(t) ==
    /\ Running
    /\ tasks[t].pc = "create"
    /\ t \in mu
    /\ IF initpc # "done" THEN CreateEarly(t)
       ELSE
       /\ mu' = mu \ {t}
       /\ UNCHANGED crashed
       /\ \E tagLabels \in getLabels(tasks[t].point.Tags) :
          LET metricName == tasks[t].metricName
              metric == NewGaugeVec(nextId, metricName, tagLabels)
          IN /\ nextId' = nextId + 1
             /\ IF RegisterOK(metric)
                THEN /\ registered' = registered \cup {metric.name}
                     /\ regOK' = MapPut(regOK, metricName, Count(regOK, metricName) + 1)
                     /\ UNCHANGED regFail
                ELSE /\ regFail' = MapPut(regFail, metricName, Count(regFail, metricName) + 1)
                     /\ UNCHANGED <<registered, regOK>>
             /\ metrics' = MapPut(metrics, metricName, metric)
             /\ labels' = MapPut(labels, metricName, tagLabels)
             /\ tasks' = [tasks EXCEPT ![t].pc = "set", ![t].metric = metric,
                             ![t].reg = IF RegisterOK(metric) THEN "ok" ELSE "conflict",
                             ![t].lvs = labelValues(tagLabels, tasks[t].point.Tags)]
    /\ UNCHANGED <<series, now, received, pin, pout, initpc, srv, udpEnable, scrape>>

\* registerMetric, line 82: metric.WithLabelValues(labels...).Set(toFloat64(value)),
\* then the next field, or back to the loop of process
Set(t) ==
    /\ Running
    /\ tasks[t].pc = "set"
    /\ IF ~WithLabelValuesOK(tasks[t].metric, tasks[t].lvs)
       THEN /\ crashed' = "registerMetric"
            /\ tasks' = [tasks EXCEPT ![t].pc = "panic"]
            /\ UNCHANGED series
       ELSE /\ series' = SetSeries(tasks[t].metric, tasks[t].lvs,
                                   toFloat64(tasks[t].point.Fields[tasks[t].key]))
            /\ tasks' = [tasks EXCEPT
                            ![t].todo = tasks[t].todo \ {tasks[t].key},
                            ![t].key = <<>>, ![t].metricName = <<>>,
                            ![t].metric = NoMetric, ![t].lvs = <<>>, ![t].reg = "none",
                            ![t].point = IF tasks[t].todo = {tasks[t].key}
                                         THEN NoPoint ELSE tasks[t].point,
                            ![t].pc = IF tasks[t].todo = {tasks[t].key} THEN "line" ELSE "lock"]
            /\ UNCHANGED crashed
    /\ UNCHANGED <<metrics, labels, mu, registered, nextId, regOK, regFail,
                   now, received, pin, pout, initpc, srv, udpEnable, scrape>>

\* the records a printer sends
rValue == <<"m", " ", "v", "=", "5">>
rTagged == <<"m", ",", "t", "=", "x", " ", "v", "=", "6">>
rField == <<"m", " ", "k", "=", "2", "i">>
rTwoFields == <<"m", " ", "v", "=", "5", ",", "k", "=", "2", "i">>
rNoEquals == <<"m", " ", "v">>
rOpenQuote == <<"m", " ", "a", "=", "\"">>
rTimestamp == <<"last_push_timestamp", " ", "v", "=", "3">>
rLastPush == <<"last_push", " ", "v", "=", "3">>
rTimestampTwo == <<"last_push_timestamp", " ", "v", "=", "3", ",", "k", "=", "2", "i">>
rSix == <<"m", " ", "v", "=", "6">>
rQuotedSpace == <<"m", ",", "t", "=", "\"", "x", " ", "y", "\"", ",", "printer_mac", "=", "B",
                  " ", "v", "=", "1">>

Body1(r) == <<"7", " ">> \o r
Body2(r0, r1) == <<"7", " ">> \o r0 \o <<"\n">> \o r1

Envelope(h, c, m) == [hostname |-> h, client |-> c, message |-> m]
FromA(body) == Envelope(GoString(<<"A">>), GoString(<<"h", ":", "9">>), GoString(body))
FromB(body) == Envelope(GoString(<<"B">>), GoString(<<"g">>), GoString(body))

sPrusa == <<"prusa_">>

\* What the printers of one run send, and the configured prefix: printers that
\* report the same measurement with and without a tag; records of one field
\* and of two; records without "=";
\* a record whose value is one quote character; a measurement that spells the
\* name of the last push gauge; the catalog's own entry last_push under the
\* empty prefix; envelopes without identifiers; an envelope without a body.
Scenario(prefix, envelopes) ==
    [NoInput EXCEPT !.op = "run", !.prefix = prefix, !.envelopes = envelopes]

RunInputs ==
    {Scenario(sPrusa, {FromA(Body1(rValue)), FromB(Body1(rValue)),
                       FromA(Body1(rTagged))}),
     Scenario(sPrusa, {FromA(Body2(rTagged, rField)), FromB(Body1(rTwoFields))}),
     Scenario(sPrusa, {FromA(Body2(rNoEquals, rValue)), FromA(Body2(rValue, rNoEquals))}),
     Scenario(sPrusa, {FromA(Body2(rValue, rOpenQuote)), FromA(Body1(rValue))}),
     Scenario(sPrusa, {FromA(Body1(rTimestamp)), FromA(Body1(rValue))}),
     Scenario(<<>>, {FromA(Body1(rLastPush)), FromA(Body1(rValue))}),
     Scenario(sPrusa, {Envelope(NotAString, GoString(<<"g">>), GoString(Body1(rValue))),
                       Envelope(GoString(<<"A">>), NotAString, GoString(Body1(rValue))),
                       FromA(Body1(rNoEquals))}),
     Scenario(sPrusa, {Envelope(GoString(<<"A">>), GoString(<<"h", ":", "9">>), NotAString),
                       FromA(Body1(rValue))}),
     Scenario(sPrusa, {FromA(Body1(rTimestampTwo)), FromB(Body1(rTimestamp))}),
     Scenario(sPrusa, {FromA(Body2(rValue, rSix)), FromB(Body2(rTagged, rValue))}),
     Scenario(sPrusa, {FromA(Body1(rQuotedSpace)), FromB(Body1(rValue))})}

Init == /\ InitRegistry
        /\ pin \in RunInputs
        /\ pout = NoOutput
        /\ initpc = "done"
        /\ srv = NoServer
        /\ udpEnable = NoEnable
        /\ scrape = NoScrape

Next == \/ \E e \in pin.envelopes : Receive(e)
        \/ Tick
        \/ \E t \in DOMAIN tasks : Identify(t)
        \/ \E t \in DOMAIN tasks : Decompose(t)
        \/ \E t \in DOMAIN tasks : ParseLine(t)
        \/ \E t \in DOMAIN tasks : Lock(t)
        \/ \E t \in DOMAIN tasks : Get(t)
        \/ \E t \in DOMAIN tasks : Create(t)
        \/ \E t \in DOMAIN tasks : Set(t)

Spec == Init /\ [][Next]_vars

-----------------------------------------------------------------------------
(* Run of cmd/main.go: the listener goroutine is started at line 76, udp.Init
   is called at line 86.  The envelopes the listener delivers are handled
   while Init has not been called, while it runs, and after it. *)

\* the package state of prometheus.go, lines 10-24, before udp.Init: lastPush
\* allocated, udpRegistry nil, the metrics map empty, the labels map nil
InitPackage ==
    /\ metrics = EmptyMap
    /\ labels = EmptyMap
    /\ mu = {}
    /\ registered = {}
    /\ series = EmptyMap
    /\ nextId = 1
    /\ regOK = EmptyMap
    /\ regFail = EmptyMap
    /\ now = 0
    /\ tasks = EmptyMap
    /\ received = 0
    /\ crashed = "no"

\* Init, line 34: udpRegistry = udpMainRegistry
SetRegistry ==
    /\ Running
    /\ initpc = "start"
    /\ initpc' = "registry"
    /\ UNCHANGED <<regVars, now, tasks, received, crashed, pin, pout, srv, udpEnable, scrape>>

\* Init, line 36: udpRegistry.MustRegister(lastPush) panics when the name is taken
MustRegister ==
    /\ Running
    /\ initpc = "registry"
    /\ IF RegisterOK(lastPush)
       THEN /\ registered' = registered \cup {lastPush.name}
            /\ initpc' = "registered"
            /\ UNCHANGED crashed
       ELSE /\ crashed' = "Init"
            /\ UNCHANGED <<registered, initpc>>
    /\ UNCHANGED <<metrics, labels, mu, series, nextId, regOK, regFail,
                   now, tasks, received, pin, pout, srv, udpEnable, scrape>>

\* Init, lines 37-41: under the mutex, the two maps made and last_push seeded
MakeCatalog ==
    /\ Running
    /\ initpc = "registered"
    /\ mutexFree
    /\ metrics' = [n \in {sLastPush} |-> lastPush]
    /\ labels' = EmptyMap
    /\ initpc' = "done"
    /\ UNCHANGED <<mu, registered, series, nextId, regOK, regFail,
                   now, tasks, received, crashed, pin, pout, srv, udpEnable, scrape>>

\* what the printers send while the exporter starts
StartInputs ==
    {Scenario(sPrusa, {FromA(Body1(rValue)), FromA(Body1(rTagged))}),
     Scenario(sPrusa, {FromA(Body1(rTimestamp)), FromB(Body1(rNoEquals))})}

InitRun == /\ InitPackage
           /\ pin \in StartInputs
           /\ pout = NoOutput
           /\ initpc = "start"
           /\ srv = NoServer
           /\ udpEnable = NoEnable
           /\ scrape = NoScrape

NextRun == \/ Next
           \/ SetRegistry
           \/ MustRegister
           \/ MakeCatalog

SpecRun == InitRun /\ [][NextRun]_vars

-----------------------------------------------------------------------------
(* The syslog server behind startSyslogServer: one receive loop that owns the
   UDP socket and pushes each decoded envelope onto the delivery channel, the
   consumer that takes envelopes off the channel, Kill and Wait. *)

srvVars == <<regVars, now, tasks, received, crashed, pin, pout, initpc,
            udpEnable, scrape>>

\* channel, server := startSyslogServer(listenAddr): the socket bound, the
\* receive loop started
startSyslogServer ==
    /\ srv.socket = "none"
    /\ srv' = [srv EXCEPT !.socket = "open", !.loop = "receiving"]
    /\ UNCHANGED srvVars

\* the receive loop reads a datagram from the open socket and decodes it
Datagram ==
    /\ srv.loop = "receiving"
    /\ srv.socket = "open"
    /\ srv' = [srv EXCEPT !.loop = "pushing"]
    /\ UNCHANGED srvVars

\* the receive loop pushes the envelope onto the delivery channel, once the
\* channel has room, and goes back to the socket
Push ==
    /\ srv.loop = "pushing"
    /\ srv.queue < MaxQueue
    /\ srv' = [srv EXCEPT !.loop = "receiving", !.queue = srv.queue + 1]
    /\ UNCHANGED srvVars

\* the consumer takes an envelope off the delivery channel
Take ==
    /\ srv.queue > 0
    /\ srv' = [srv EXCEPT !.queue = srv.queue - 1]
    /\ UNCHANGED srvVars

\* stop that leaves the socket open
KillKeepsSocket ==
    /\ srv.socket = "open"
    /\ ~srv.killed
    /\ srv' = [srv EXCEPT !.killed = TRUE]
    /\ UNCHANGED srvVars

\* server.Kill(): the socket closed
Kill ==
    /\ srv.socket = "open"
    /\ ~srv.killed
    /\ srv' = [srv EXCEPT !.socket = "closed", !.killed = TRUE]
    /\ UNCHANGED srvVars

\* the receive loop finds its socket closed and ends
LoopExit ==
    /\ srv.loop = "receiving"
    /\ srv.socket = "closed"
    /\ srv' = [srv EXCEPT !.loop = "stopped"]
    /\ UNCHANGED srvVars

\* a goroutine calls server.Wait()
Wait(w) ==
    /\ srv.socket # "none"
    /\ srv.waits[w] = "idle"
    /\ srv' = [srv EXCEPT !.waits[w] = "blocked"]
    /\ UNCHANGED srvVars

\* server.Wait() returns: the receive loop has ended
WaitReturn(w) ==
    /\ srv.waits[w] = "blocked"
    /\ srv.loop = "stopped"
    /\ srv' = [srv EXCEPT !.waits[w] = "returned"]
    /\ UNCHANGED srvVars

InitServer == /\ InitRegistry
              /\ pin = [NoInput EXCEPT !.op = "serve"]
              /\ pout = NoOutput
              /\ initpc = "done"
              /\ srv = NoServer
              /\ udpEnable = NoEnable
              /\ scrape = NoScrape

NextServer == \/ startSyslogServer
              \/ Datagram
              \/ Push
              \/ Take
              \/ Kill
              \/ LoopExit
              \/ \E w \in Waiters : Wait(w)
              \/ \E w \in Waiters : WaitReturn(w)

\* the goroutines of the loop, of the consumer and of the waiters are scheduled
\* as long as they can run; nobody has to call Kill or Wait
SpecServer == /\ InitServer
              /\ [][NextServer]_vars
              /\ WF_vars(Push)
              /\ WF_vars(Take)
              /\ WF_vars(LoopExit)
              /\ \A w \in Waiters : WF_vars(WaitReturn(w))

------------------------------------------------------------------------------
(* prusalink: EnableUDPmetrics.  One goroutine per printer deletes, uploads
   and starts enable_udp_metrics.gcode; the caller waits on the WaitGroup. *)

enableVars == <<regVars, now, tasks, received, crashed, pin, pout, initpc, srv, scrape>>

\* the call, up to the loop over printers
EnableUDPmetrics ==
    /\ udpEnable.pc = "idle"
    /\ udpEnable' = [udpEnable EXCEPT !.pc = "loop"]
    /\ UNCHANGED enableVars

\* one turn of the loop: wg.Add(1) and go func(i, s)
GoEnable ==
    /\ udpEnable.pc = "loop"
    /\ udpEnable.next <= MaxPrinters
    /\ udpEnable' = [udpEnable EXCEPT !.wg = @ + 1, !.next = @ + 1,
                                      !.call[udpEnable.next].pc = "delete"]
    /\ UNCHANGED enableVars

\* deleteGcode, called first by sendGcode: the DELETE request; its result and
\* its error are dropped
deleteGcode(i) ==
    /\ udpEnable.call[i].pc = "delete"
    /\ udpEnable' = [udpEnable EXCEPT !.call[i].pc = "put",
                                      !.call[i].requests = Append(@, "DELETE")]
    /\ UNCHANGED enableVars

\* the rest of sendGcode and the lines of the goroutine behind it.  gcodeInit
\* can fail (no local address), and then no PUT is made; client.Do can fail;
\* reading the body can fail; otherwise sendGcode returns the body with a nil
\* error, whatever the status of the response is.  With an error the flag is
\* set to false and the goroutine ends.
sendGcode(i) ==
    /\ udpEnable.call[i].pc = "put"
    /\ \E outcome \in {"no gcode", "send error", "read error", "created", "refused"} :
          LET err == outcome \in {"no gcode", "send error", "read error"}
              sent == IF outcome = "no gcode" THEN udpEnable.call[i].requests
                      ELSE Append(udpEnable.call[i].requests, "PUT")
          IN udpEnable' = [udpEnable EXCEPT
                 !.call[i].requests = sent,
                 !.call[i].upload = outcome,
                 !.call[i].pc = IF err THEN "done" ELSE "post",
                 !.flag[i] = IF err THEN FALSE ELSE @,
                 !.wg = IF err THEN @ - 1 ELSE @]
    /\ UNCHANGED enableVars

\* startGcode and the lines of the goroutine behind it: the POST request; an
\* error of client.Post or a status other than 204 is an error and the flag
\* is set to false; with 204 the flag is set to true (a failure to read the
\* body is only logged)
startGcode(i) ==
    /\ udpEnable.call[i].pc = "post"
    /\ \E outcome \in {"post error", "204", "other status"} :
          udpEnable' = [udpEnable EXCEPT
              !.call[i].requests = Append(@, "POST"),
              !.call[i].start = outcome,
              !.call[i].pc = "done",
              !.flag[i] = (outcome = "204"),
              !.wg = @ - 1]
    /\ UNCHANGED enableVars

\* wg.Wait() behind the loop, and the return
WaitEnable ==
    /\ udpEnable.pc = "loop"
    /\ udpEnable.next > MaxPrinters
    /\ udpEnable.wg = 0
    /\ udpEnable' = [udpEnable EXCEPT !.pc = "returned"]
    /\ UNCHANGED enableVars

\* the flags are whatever the configuration and an earlier call left
InitEnable == /\ InitRegistry
              /\ pin = [NoInput EXCEPT !.op = "enable"]
              /\ pout = NoOutput
              /\ initpc = "done"
              /\ srv = NoServer
              /\ udpEnable \in {[NoEnable EXCEPT !.flag = f] : f \in [PrinterIds -> BOOLEAN]}
              /\ scrape = NoScrape

NextEnable == \/ EnableUDPmetrics
              \/ GoEnable
              \/ \E i \in PrinterIds : deleteGcode(i)
              \/ \E i \in PrinterIds : sendGcode(i)
              \/ \E i \in PrinterIds : startGcode(i)
              \/ WaitEnable

SpecEnable == InitEnable /\ [][NextEnable]_vars

------------------------------------------------------------------------------
(* prusalink: Collector.Collect.  One goroutine per printer scrapes the
   endpoints of PrusaLink and sends its samples on ch; the caller waits on
   the WaitGroup. *)

collectVars == <<regVars, now, tasks, received, crashed, pin, pout, initpc, srv, udpEnable>>

MetricPrinterUp == "prusa_up"
MetricPrinterJobImage == "prusa_job_image"

\* a sample sent on ch: its metric, the label value that tells the samples of
\* one metric apart, and "0" or "1" for prusa_up, "reading" for what was
\* read from the printer
Sample(name, label, value) == [name |-> name, label |-> label, value |-> value]

\* the samples between GetInfo and the job image, in the order of the code
Telemetry ==
    <<Sample("prusa_info", "", "reading"),
      Sample("prusa_job", "", "reading"),
      Sample("prusa_fan_speed_rpm", "hotend", "reading"),
      Sample("prusa_fan_speed_rpm", "print", "reading"),
      Sample("prusa_nozzle_size_meters", "", "reading"),
      Sample("prusa_print_speed_ratio", "", "reading"),
      Sample("prusa_print_time_seconds", "", "reading"),
      Sample("prusa_printing_time_remaining_seconds", "", "reading"),
      Sample("prusa_printing_progress_ratio", "", "reading"),
      Sample("prusa_material_info", "", "reading"),
      Sample("prusa_axis", "x", "reading"),
      Sample("prusa_axis", "y", "reading"),
      Sample("prusa_axis", "z", "reading"),
      Sample("prusa_print_flow_ratio", "", "reading"),
      Sample("prusa_mmu", "", "reading"),
      Sample("prusa_temperature_celsius", "bed", "reading"),
      Sample("prusa_temperature_celsius", "tool0", "reading"),
      Sample("prusa_temperature_target_celsius", "bed", "reading"),
      Sample("prusa_temperature_target_celsius", "tool0", "reading"),
      Sample("prusa_status_info", "", "reading")>>

\* c.metricEnabled(m): the metric is not in prusalink.disable_metrics
metricEnabled(m) == m \notin scrape.disabled

RECURSIVE EnabledOf(_)
EnabledOf(samples) ==
    IF samples = <<>> THEN <<>>
    ELSE IF metricEnabled(Head(samples).name)
         THEN <<Head(samples)>> \o EnabledOf(Tail(samples))
         ELSE EnabledOf(Tail(samples))

\* the call, up to the loop over the printers
Collect ==
    /\ scrape.pc = "idle"
    /\ scrape' = [scrape EXCEPT !.pc = "loop"]
    /\ UNCHANGED collectVars

\* one turn of the loop: wg.Add(1) and go func(s)
GoScrape ==
    /\ scrape.pc = "loop"
    /\ scrape.next <= MaxPrinters
    /\ scrape' = [scrape EXCEPT !.wg = @ + 1, !.next = @ + 1,
                                !.call[scrape.next].pc = "job"]
    /\ UNCHANGED collectVars

\* an endpoint failed: ch <- printerUp with the value 0, and the goroutine ends
Offline(i, endpoint) ==
    [scrape EXCEPT !.call[i].pc = "done", !.call[i].failed = endpoint,
                   !.ch[i] = Append(@, Sample(MetricPrinterUp, "", "0")),
                   !.wg = @ - 1]

\* GetJob(s) and the lines behind it
GetJob(i) ==
    /\ scrape.call[i].pc = "job"
    /\ \/ scrape' = [scrape EXCEPT !.call[i].pc = "printer"]
       \/ scrape' = Offline(i, "job")
    /\ UNCHANGED collectVars

\* GetPrinter(s) and the lines behind it; the printer is printing or not
GetPrinter(i) ==
    /\ scrape.call[i].pc = "printer"
    /\ \/ \E printing \in BOOLEAN :
             scrape' = [scrape EXCEPT !.call[i].pc = "version",
                                      !.call[i].printing = printing]
       \/ scrape' = Offline(i, "printer")
    /\ UNCHANGED collectVars

\* GetVersion(s) and the lines behind it
GetVersion(i) ==
    /\ scrape.call[i].pc = "version"
    /\ \/ scrape' = [scrape EXCEPT !.call[i].pc = "status"]
       \/ scrape' = Offline(i, "version")
    /\ UNCHANGED collectVars

\* GetStatus(s) and GetInfo(s), whose errors are only logged, and the samples
\* of the enabled metrics up to prusa_status_info
SendTelemetry(i) ==
    /\ scrape.call[i].pc = "status"
    /\ \E partial \in BOOLEAN :
          scrape' = [scrape EXCEPT
              !.call[i].partial = partial,
              !.ch[i] = @ \o EnabledOf(Telemetry),
              !.call[i].pc = IF metricEnabled(MetricPrinterJobImage) /\ scrape.call[i].printing
                             THEN "image" ELSE "up"]
    /\ UNCHANGED collectVars

\* GetJobImage(s, path): the sample of the image, or only a log line
GetJobImage(i) ==
    /\ scrape.call[i].pc = "image"
    /\ \/ scrape' = [scrape EXCEPT !.call[i].pc = "up",
                        !.ch[i] = Append(@, Sample(MetricPrinterJobImage, "", "reading"))]
       \/ scrape' = [scrape EXCEPT !.call[i].pc = "up"]
    /\ UNCHANGED collectVars

\* a goroutine that sends prusa_up only when the metric is enabled
SendUpIfEnabled(i) ==
    /\ scrape.call[i].pc = "up"
    /\ scrape' = [scrape EXCEPT
          !.call[i].pc = "done",
          !.ch[i] = IF metricEnabled(MetricPrinterUp)
                    THEN Append(@, Sample(MetricPrinterUp, "", "1")) ELSE @,
          !.wg = @ - 1]
    /\ UNCHANGED collectVars

\* ch <- printerUp with the value 1, the last lines of the goroutine
SendUp(i) ==
    /\ scrape.call[i].pc = "up"
    /\ scrape' = [scrape EXCEPT
          !.call[i].pc = "done",
          !.ch[i] = Append(@, Sample(MetricPrinterUp, "", "1")),
          !.wg = @ - 1]
    /\ UNCHANGED collectVars

\* wg.Wait() behind the loop, and the return
WaitCollect ==
    /\ scrape.pc = "loop"
    /\ scrape.next > MaxPrinters
    /\ scrape.wg = 0
    /\ scrape' = [scrape EXCEPT !.pc = "returned"]
    /\ UNCHANGED collectVars

\* prusalink.disable_metrics of the configuration
DisabledChoices == {{}, {MetricPrinterJobImage, "prusa_axis"},
                    {MetricPrinterUp, "prusa_info"}}

InitCollect == /\ InitRegistry
               /\ pin = [NoInput EXCEPT !.op = "collect"]
               /\ pout = NoOutput
               /\ initpc = "done"
               /\ srv = NoServer
               /\ udpEnable = NoEnable
               /\ scrape \in {[NoScrape EXCEPT !.disabled = d] : d \in DisabledChoices}

NextCollect == \/ Collect
               \/ GoScrape
               \/ \E i \in PrinterIds : GetJob(i)
               \/ \E i \in PrinterIds : GetPrinter(i)
               \/ \E i \in PrinterIds : GetVersion(i)
               \/ \E i \in PrinterIds : SendTelemetry(i)
               \/ \E i \in PrinterIds : GetJobImage(i)
               \/ \E i \in PrinterIds : SendUp(i)
               \/ WaitCollect

SpecCollect == InitCollect /\ [][NextCollect]_vars

-----------------------------------------------------------------------------
(* The pure functions on bounded inputs: parseLineProtocol on every line made
   of at most MaxPieces pieces, processMessage on every body made of at most
   MaxPieces pieces. *)

RECURSIVE SeqsUpTo(_, _)
SeqsUpTo(S, n) ==
    IF n = 0 THEN {<<>>}
    ELSE SeqsUpTo(S, n - 1) \cup {Append(q, x) : q \in SeqsUpTo(S, n - 1), x \in S}

\* the pieces of a record: a measurement, tags, fields, a timestamp, the
\* characters splitLine treats specially
LinePieces == {<<"m">>,
               <<",", "t", "=", "x">>,
               <<",", "t">>,
               <<" ", "a", "=", "1">>,
               <<" ", "a">>,
               <<" ", "a", "=", "\"">>,
               <<",", "b", "=", "2", "i">>,
               <<" ", "1">>,
               <<"\"">>,
               <<"\\">>,
               <<" ">>}

\* the pieces of a message body: the sequence token, records, the line break
BodyPieces == {<<"7">>, <<" ">>, <<"\n">>, <<"m">>, <<",", "t", "=", "x">>,
               <<" ", "v", "=", "1">>}

\* the lines and the bodies made of at most n pieces
Lines(n) == {Flatten(q) : q \in SeqsUpTo(LinePieces, n)}
Bodies(n) == {Flatten(q) : q \in SeqsUpTo(BodyPieces, n)}

ParseInputs(n) == {[NoInput EXCEPT !.op = "parse", !.text = l] : l \in Lines(n)}
DecomposeInputs(n) ==
    {[NoInput EXCEPT !.op = "decompose", !.text = b, !.mac = <<"A">>, !.prefix = p, !.ip = c] :
        b \in Bodies(n), p \in Prefixes, c \in Clients}

\* quoted field values that hold an escaped quote, and the records that carry
\* them: as the first of two fields, and with no measurement before them
EscapedValues == {<<"\"", "x", "\\", "\"", "y", "\"">>,
                  <<"\"", "x", "\\", "\"", " ", "y", "\"">>,
                  <<"\"", "\\", "\"", "x", "\"">>,
                  <<"\"", "x", "\\", "\"", "\"">>}
rTwoWithEscape(q) == <<"m", " ", "a", "=">> \o q \o <<",", "b", "=", "1", "i">>
rBareEscape(q) == <<"a", "=">> \o q \o <<" ", "b", "=", "1", "i">>
EscapedInputs ==
    {[NoInput EXCEPT !.op = "parse", !.text = l] :
        l \in {rTwoWithEscape(q) : q \in EscapedValues}
               \cup {rBareEscape(q) : q \in EscapedValues}}

\* records with a comma between double quotes, in a field value and in a tag
\* value, with and without a = behind the comma
rQuotedComma == <<"m", " ", "a", "=", "\"", "x", ",", "y", "\"">>
QuotedCommaRecords ==
    {rQuotedComma,
     <<"m", " ", "a", "=", "\"", "x", ",", "b", "=", "y", "\"">>,
     <<"m", " ", "a", "=", "\"", "x", ",", "y", "\"", ",", "b", "=", "1", "i">>,
     <<"m", ",", "t", "=", "\"", "x", ",", "y", "\"", " ", "a", "=", "1">>,
     <<"m", ",", "t", "=", "\"", "x", ",", "u", "=", "y", "\"", " ", "a", "=", "1">>}
QuotedCommaInputs == {[NoInput EXCEPT !.op = "parse", !.text = l] : l \in QuotedCommaRecords}

\* n written in decimal, as a printer prints it
DigitChar(d) == CASE d = 0 -> "0" [] d = 1 -> "1" [] d = 2 -> "2" [] d = 3 -> "3"
                  [] d = 4 -> "4" [] d = 5 -> "5" [] d = 6 -> "6" [] d = 7 -> "7"
                  [] d = 8 -> "8" [] d = 9 -> "9"
RECURSIVE DecimalNat(_)
DecimalNat(n) == IF n < 10 THEN <<DigitChar(n)>>
                 ELSE Append(DecimalNat(n \div 10), DigitChar(n % 10))
Decimal(n) == IF n < 0 THEN <<"-">> \o DecimalNat(-n) ELSE DecimalNat(n)

\* the records m v=k and m v=ki for the integers k of -n..n
SampleInputs(n) ==
    {[NoInput EXCEPT !.op = "sample", !.n = k,
                     !.text = <<"m", " ", "v", "=">> \o Decimal(k) \o sfx] :
        k \in (-n)..n, sfx \in {<<>>, <<"i">>}}

\* values of interface{}: of the types the switch of toFloat64 names, and of
\* types it does not name
GoInt(n) == [NoVal EXCEPT !.type = "int", !.i = n]
Filaments == {sPLA, sPETG, sASA, sPC, sPVB, sABS, sHIPS, sPP, sFLEX, sPA, sNone}
OtherStrings == {<<>>, <<"p", "l", "a">>, <<"P", "l", "a">>, <<"P", "L", "A", " ">>,
                 <<"p", "a">>, <<"A", "b", "s">>, <<"-", "-">>, <<"-", "-", "-", "-">>,
                 <<"1">>, <<"P", "L", "A", "+">>, sTrue}
Unsupported(n) ==
    {[NoVal EXCEPT !.type = ty, !.i = k] : ty \in {"int32", "uint64"}, k \in {1, n}}
    \cup {[NoVal EXCEPT !.type = "float32", !.f = <<15, 1>>],
          [NoVal EXCEPT !.type = "[]byte", !.s = sPLA],
          [NoVal EXCEPT !.type = "error", !.s = sPA]}
GoValues(n) ==
    {GoInt(k) : k \in (-n)..n} \cup {IntVal(k) : k \in (-n)..n}
    \cup {FloatVal(NormF(k, e)) : k \in (-n)..n, e \in 0..1}
    \cup {BoolVal(TRUE), BoolVal(FALSE), NoVal}
    \cup {StringVal(x) : x \in Filaments \cup OtherStrings}
    \cup Unsupported(n)
CoerceInputs(n) == {[NoInput EXCEPT !.op = "coerce", !.value = v] : v \in GoValues(n)}

\* the registry and the catalog as registerMetric reads and writes them
Registry0 == [metrics |-> [n \in {sLastPush} |-> lastPush], labels |-> EmptyMap,
              registered |-> {sLastPushTimestamp}, series |-> EmptyMap,
              nextId |-> 1, panic |-> FALSE]

\* registerMetric, lines 47-82: one turn of the loop, for the field key, with
\* tagLabels the order getLabels returned in this turn
registerField(reg, p, key, tagLabels) ==
    LET metricName == metricNameOf(p.Measurement, key)
        exists == metricName \in DOMAIN reg.metrics
        metric == IF exists THEN reg.metrics[metricName]
                  ELSE NewGaugeVec(reg.nextId, metricName, tagLabels)
        catalog == IF exists THEN reg
                   ELSE [reg EXCEPT !.metrics = MapPut(reg.metrics, metricName, metric),
                                    !.labels = MapPut(reg.labels, metricName, tagLabels),
                                    !.registered = reg.registered \cup {metricName},
                                    !.nextId = reg.nextId + 1]
        lvs == labelValues(MapGet(catalog.labels, metricName), p.Tags)
    IN IF reg.panic THEN reg
       ELSE IF ~WithLabelValuesOK(metric, lvs) THEN [catalog EXCEPT !.panic = TRUE]
       ELSE [catalog EXCEPT !.series = MapPut(catalog.series, <<metric.id, lvs>>,
                                              toFloat64(p.Fields[key]))]

\* registerMetric(p) when the range over p.Fields yields the keys in the order
\* keys, and getLabels yields tagOrders[key] in the turn of key
RECURSIVE registerMetricIn(_, _, _, _)
registerMetricIn(reg, p, keys, tagOrders) ==
    IF keys = <<>> THEN reg
    ELSE registerMetricIn(registerField(reg, p, Head(keys), tagOrders[Head(keys)]),
                          p, Tail(keys), tagOrders)

\* what a scrape shows of a registry: per family name and set of label pairs,
\* the sample
exposedKey(reg, sk) ==
    LET n == CHOOSE n \in DOMAIN reg.metrics : reg.metrics[n].id = sk[1]
    IN <<reg.metrics[n].name,
         {<<reg.metrics[n].labelNames[i], sk[2][i]>> : i \in 1..Len(sk[2])}>>

exposed(reg) ==
    [x \in {exposedKey(reg, sk) : sk \in DOMAIN reg.series} |->
        reg.series[CHOOSE sk \in DOMAIN reg.series : exposedKey(reg, sk) = x]]

\* records with one field, with two fields of two names, and with the fields
\* v and value
rBoth == <<"m", " ", "v", "=", "1", ",", "v", "a", "l", "u", "e", "=", "2">>
rBothTagged == <<"m", ",", "t", "=", "x", " ", "v", "=", "1", ",",
                 "v", "a", "l", "u", "e", "=", "2">>
RegisterRecords == {rValue, rTagged, rField, rTwoFields, rBoth, rBothTagged}

\* the registry a call starts from: as udp.Init left it, or with the family
\* of m,t=x v=6 of the same device in it
RegistryBefore(in) ==
    IF in.n = 0 THEN Registry0
    ELSE LET q == parseLineProtocol(rewriteLine(rTagged, in.prefix, in.mac, in.ip))
         IN registerMetricIn(Registry0, q, << <<"v">> >>,
                [k \in DOMAIN q.Fields |-> CHOOSE o \in getLabels(q.Tags) : TRUE])

RegisterInputs ==
    {[NoInput EXCEPT !.op = "register", !.text = r, !.mac = <<"A">>, !.prefix = x,
                     !.ip = c, !.n = n] :
        r \in RegisterRecords, x \in Prefixes, c \in Clients, n \in {0, 1}}

\* the strings splitLine is given: every string of up to n characters over a
\* plain character and the three that the scanner treats specially
SplitChars == {"a", " ", "\\", "\""}
SplitInputs(n) == {[NoInput EXCEPT !.op = "split", !.text = q] : q \in SeqsUpTo(SplitChars, n)}

InitParse == /\ InitRegistry
             /\ \/ pin \in EscapedInputs
                \/ pin \in QuotedCommaInputs
                \/ pin \in RegisterInputs
                \/ pin \in SplitInputs(MaxSplitLen)
                \/ pin \in SampleInputs(MaxNumber)
                \/ pin \in CoerceInputs(MaxNumber)
                \/ pin \in ParseInputs(MaxPieces)
                \/ pin \in DecomposeInputs(MaxPieces)
             /\ pout = NoOutput
             /\ initpc = "done"
             /\ srv = NoServer
             /\ udpEnable = NoEnable
             /\ scrape = NoScrape

\* parseLineProtocol(pin.text)
ParseStep ==
    /\ pin.op = "parse" /\ ~pout.done
    /\ pout' = [NoOutput EXCEPT !.done = TRUE, !.point = parseLineProtocol(pin.text)]
    /\ UNCHANGED <<regVars, now, tasks, received, crashed, pin, initpc, srv, udpEnable, scrape>>

\* processMessage(pin.text, pin.mac, pin.prefix, pin.ip)
DecomposeStep ==
    /\ pin.op = "decompose" /\ ~pout.done
    /\ pout' = [NoOutput EXCEPT !.done = TRUE,
                                !.lines = processMessage(pin.text, pin.mac, pin.prefix, pin.ip)]
    /\ UNCHANGED <<regVars, now, tasks, received, crashed, pin, initpc, srv, udpEnable, scrape>>

\* the loop of process on one line and, for each field of its point, the
\* toFloat64(value) of registerMetric
SampleStep ==
    /\ pin.op = "sample" /\ ~pout.done
    /\ LET p == parseLineProtocol(pin.text) IN
       pout' = [NoOutput EXCEPT !.done = TRUE, !.point = p,
                   !.samples = [k \in DOMAIN p.Fields |-> toFloat64(p.Fields[k])]]
    /\ UNCHANGED <<regVars, now, tasks, received, crashed, pin, initpc, srv, udpEnable, scrape>>

\* toFloat64(pin.value)
CoerceStep ==
    /\ pin.op = "coerce" /\ ~pout.done
    /\ pout' = [NoOutput EXCEPT !.done = TRUE, !.f = toFloat64(pin.value)]
    /\ UNCHANGED <<regVars, now, tasks, received, crashed, pin, initpc, srv, udpEnable, scrape>>

\* registerMetric on the point of the rewritten record, from RegistryBefore(pin),
\* with the orders the two ranges over maps happen to yield
RegisterStep ==
    /\ pin.op = "register" /\ ~pout.done
    /\ LET p == parseLineProtocol(rewriteLine(pin.text, pin.prefix, pin.mac, pin.ip)) IN
       \E keys \in Orders(DOMAIN p.Fields) :
       \E tagOrders \in [DOMAIN p.Fields -> getLabels(p.Tags)] :
          LET reg == registerMetricIn(RegistryBefore(pin), p, keys, tagOrders)
          IN pout' = [NoOutput EXCEPT !.done = TRUE,
                         !.point = IF reg.panic THEN PanicResult ELSE p,
                         !.samples = exposed(reg)]
    /\ UNCHANGED <<regVars, now, tasks, received, crashed, pin, initpc, srv, udpEnable, scrape>>

\* splitLine(pin.text)
SplitStep ==
    /\ pin.op = "split" /\ ~pout.done
    /\ pout' = [NoOutput EXCEPT !.done = TRUE, !.lines = splitLine(pin.text)]
    /\ UNCHANGED <<regVars, now, tasks, received, crashed, pin, initpc, srv, udpEnable, scrape>>

NextParse == ParseStep \/ DecomposeStep \/ SampleStep \/ CoerceStep \/ RegisterStep \/ SplitStep

SpecParse == InitParse /\ [][NextParse]_vars

-----------------------------------------------------------------------------
(* Claims about the parser and the decomposer, checked under SpecParse. *)

Parsed == pin.op = "parse" /\ pout.done
Decomposed == pin.op = "decompose" /\ pout.done

\* C4: for every input line, truncated lines, lines with unbalanced quotes and
\* lines whose quoted value is a single quote character included,
\* parseLineProtocol returns a point or a format error: no line makes it panic.
C4_ParseNeverPanics == Parsed => pout.point.kind \in {"point", "error"}

\* the line m a=" is one that panics
C4_SingleQuoteValue == Parsed /\ pin.text = <<"m", " ", "a", "=", "\"">>

\* the line before and after the first space, as the claims speak of it
LeadToken(line) == IF Has(line, " ") THEN SubSeq(line, 1, Index(line, " ") - 1) ELSE line
AfterLead(line) == IF Has(line, " ") THEN SubSeq(line, Index(line, " "), Len(line)) ELSE <<>>
Stripped(line) == IF Has(line, " ") THEN SubSeq(line, Index(line, " ") + 1, Len(line)) ELSE <<>>

RawLines == Split(pin.text, "\n")

\* C5: processMessage returns as many lines as the body has, in the order
\* line1, ..., lineN, then line 0 without its leading space-delimited token
\* (each rewritten by updateMetric); a one-line body yields that one stripped
\* line and a two-line body comes out reversed.
C5_RotatedOrder ==
    Decomposed =>
        /\ Len(pout.lines) = Len(RawLines)
        /\ \A i \in 1..(Len(RawLines) - 1) :
               pout.lines[i] = rewriteLine(RawLines[i + 1], pin.prefix, pin.mac, pin.ip)
        /\ pout.lines[Len(RawLines)] =
               rewriteLine(Stripped(RawLines[1]), pin.prefix, pin.mac, pin.ip)

\* a body of three lines whose line 0 loses a token and whose lines differ
C5_ThreeLines == /\ Decomposed
                 /\ Len(RawLines) = 3
                 /\ Has(RawLines[1], " ")
                 /\ RawLines[2] # RawLines[3]
                 /\ Stripped(RawLines[1]) # RawLines[2]

\* the lines processMessage rewrites, in their order
Rotated == rotate(RawLines)

IdentityTags == sPrinterMac \o pin.mac \o sPrinterAddress \o
                (IF Has(pin.ip, ":") THEN SubSeq(pin.ip, 1, Index(pin.ip, ":") - 1) ELSE pin.ip)

MeasurementOf(tok) == IF Has(tok, ",") THEN SubSeq(tok, 1, Index(tok, ",") - 1) ELSE tok
TagsOf(tok) == IF Has(tok, ",") THEN SubSeq(tok, Index(tok, ","), Len(tok)) ELSE <<>>

\* C6 as stated: the identity tags are inserted right after the measurement
\* name, before any existing tag, and the measurement name gets the prefix.
C6_InsertedBeforeTags ==
    Decomposed =>
        \A i \in 1..Len(Rotated) :
            pout.lines[i] = pin.prefix \o MeasurementOf(LeadToken(Rotated[i])) \o IdentityTags
                            \o TagsOf(LeadToken(Rotated[i])) \o AfterLead(Rotated[i])

\* C6 amended: the identity tags are appended to the leading token, after any
\* existing tag; the measurement name gets the prefix, the rest of the line is
\* unchanged.
C6_AppendedAfterTags ==
    Decomposed =>
        \A i \in 1..Len(Rotated) :
            pout.lines[i] = pin.prefix \o LeadToken(Rotated[i]) \o IdentityTags
                            \o AfterLead(Rotated[i])

\* a line with an existing tag, a prefix and a port in the source address
C6_LineWithTag == /\ Decomposed
                  /\ pin.prefix # <<>>
                  /\ Has(pin.ip, ":")
                  /\ \E i \in 1..Len(Rotated) :
                        /\ TagsOf(LeadToken(Rotated[i])) # <<>>
                        /\ AfterLead(Rotated[i]) # <<>>

IsKeyValue(tok) == Has(tok, "=")

\* what C10 calls a line with a format error
C10_Malformed(line) ==
    \/ Len(splitLine(line)) < 2
    \/ Len(splitLine(line)) > 3
    \/ \E i \in 2..Len(Split(splitLine(line)[1], ",")) :
          ~IsKeyValue(Split(splitLine(line)[1], ",")[i])
    \/ \E i \in 1..Len(Split(splitLine(line)[2], ",")) :
          ~IsKeyValue(Split(splitLine(line)[2], ",")[i])

\* C10: parseLineProtocol returns a format error exactly for the lines with
\* fewer than 2 or more than 3 segments, a tag that is no key=value pair or a
\* field that is no key=value pair; every other line yields a point.
C10_FormatErrorExactly ==
    Parsed => /\ (pout.point.kind = "error") <=> C10_Malformed(pin.text)
              /\ ~C10_Malformed(pin.text) => pout.point.kind = "point"

\* the field tokens of a line, and the token that decides a key: the last one
FieldTokens(line) == Split(splitLine(line)[2], ",")
KeyOf(tok) == SplitN2(tok, "=")[1]
RawOf(tok) == SplitN2(tok, "=")[2]
Decides(toks, i) == \A j \in (i + 1)..Len(toks) : KeyOf(toks[j]) # KeyOf(toks[i])

\* the typing C11 describes: a boolean is exactly true or false
TypedAsClaimed(val) ==
    IF HasSuffix(val, "i") /\ ParseIntOK(SubSeq(val, 1, Len(val) - 1))
    THEN IntVal(ParseIntVal(SubSeq(val, 1, Len(val) - 1)))
    ELSE IF val = sTrue THEN BoolVal(TRUE)
    ELSE IF val = sFalse THEN BoolVal(FALSE)
    ELSE IF ParseFloatOK(val) THEN FloatVal(ParseFloatVal(val))
    ELSE IF HasPrefix(val, "\"") /\ HasSuffix(val, "\"")
    THEN StringVal(SubSeq(val, 2, Len(val) - 1))
    ELSE StringVal(val)

\* C11: every field of a returned point holds its raw value typed in this
\* order: a trailing i with an int64 before it is an integer; exactly true or
\* false is a boolean; a parseable float is a float; a value wrapped in double
\* quotes is the string between them; anything else is the raw string.  A value
\* is a boolean if and only if it is exactly true or false.
C11_TypedInOrder ==
    (Parsed /\ pout.point.kind = "point") =>
        \A i \in 1..Len(FieldTokens(pin.text)) :
            Decides(FieldTokens(pin.text), i) =>
                /\ pout.point.Fields[KeyOf(FieldTokens(pin.text)[i])]
                       = TypedAsClaimed(RawOf(FieldTokens(pin.text)[i]))
                /\ (pout.point.Fields[KeyOf(FieldTokens(pin.text)[i])].type = "bool")
                       <=> RawOf(FieldTokens(pin.text)[i]) \in {sTrue, sFalse}

\* a line of three segments, and what the claims call a valid timestamp
HasTimestamp(line) == Len(splitLine(line)) = 3
ValidTimestamp(ts) == ParseIntOK(ts)
WithoutTimestamp(line) == Join(SubSeq(splitLine(line), 1, 2), " ")

\* C12 as stated: a third segment is checked for validity, so a line whose
\* third segment is no timestamp does not yield a point.
C12_InvalidTimestampRefused ==
    (Parsed /\ HasTimestamp(pin.text) /\ ~ValidTimestamp(splitLine(pin.text)[3]))
        => pout.point.kind # "point"

\* C12 amended: a third segment is neither checked nor attached: whatever it
\* holds, a timestamp or not, the line has the result of the line without it.
C12_TimestampIgnored ==
    (Parsed /\ HasTimestamp(pin.text))
        => pout.point = parseLineProtocol(WithoutTimestamp(pin.text))

\* a point returned for a line whose third segment is no timestamp
C12_PointDespiteTimestamp ==
    /\ Parsed /\ HasTimestamp(pin.text)
    /\ ~ValidTimestamp(splitLine(pin.text)[3])
    /\ pout.point.kind = "point"
    /\ pout.point.Fields # EmptyMap

Sampled == pin.op = "sample" /\ pout.done

\* C13: for every integer n of the range, 0 and 1 included, the field value
\* written n and the field value written ni both end as the sample value n:
\* whatever type the parser gives the value, the coercion returns n.
C13_SampleIsNumber ==
    Sampled => /\ pout.point.kind = "point"
               /\ DOMAIN pout.samples = {<<"v">>}
               /\ pout.samples[<<"v">>] = Num(pin.n)

\* the value 1, typed as a boolean by the parser, coerced to 1
C13_OneTypedBoolean ==
    /\ Sampled
    /\ pin.text = <<"m", " ", "v", "=", "1">>
    /\ pout.point.Fields[<<"v">>] = BoolVal(TRUE)
    /\ pout.samples[<<"v">>] = Num(1)

sA == <<"a">>
sB == <<"b">>
xQuoteY == <<"\"", "x", "\\", "\"", "y", "\"">>
Unwrapped(q) == SubSeq(q, 2, Len(q) - 1)

\* C14 as stated: the record a="x\"y" b=1i parses as exactly two fields, a
\* holding the quoted string without its wrapping quotes and b the integer 1.
C14_BareRecordTwoFields ==
    (Parsed /\ pin.text = rBareEscape(xQuoteY)) =>
        /\ pout.point.kind = "point"
        /\ DOMAIN pout.point.Fields = {sA, sB}
        /\ pout.point.Fields[sA] = StringVal(Unwrapped(xQuoteY))
        /\ pout.point.Fields[sB] = IntVal(1)

\* C14 amended: a quoted field value that holds an escaped quote is not cut at
\* that quote.  After a measurement, as in m a="x\"y",b=1i, it parses as
\* exactly two fields: a, the string between the wrapping quotes with its
\* backslash kept, and b, the integer 1.  With no measurement before it, as in
\* a="x\"y" b=1i, the first segment a="x\"y" is the measurement and the point
\* has the one field b, the integer 1.
C14_EscapedQuoteKept ==
    \A q \in EscapedValues :
        /\ (Parsed /\ pin.text = rTwoWithEscape(q)) =>
              pout.point = [NoPoint EXCEPT !.kind = "point", !.Measurement = <<"m">>,
                               !.Fields = (sA :> StringVal(Unwrapped(q)))
                                              @@ (sB :> IntVal(1))]
        /\ (Parsed /\ pin.text = rBareEscape(q)) =>
              pout.point = [NoPoint EXCEPT !.kind = "point",
                               !.Measurement = sA \o <<"=">> \o q,
                               !.Fields = (sB :> IntVal(1))]

\* the two fields of m a="x\"y",b=1i
C14_TwoFieldsParsed ==
    /\ Parsed /\ pin.text = rTwoWithEscape(xQuoteY)
    /\ DOMAIN pout.point.Fields = {sA, sB}
    /\ pout.point.Fields[sA] = StringVal(<<"x", "\\", "\"", "y">>)

Coerced == pin.op = "coerce" /\ pout.done

\* the table of C15: PLA, PETG, ASA, PC, PVB, ABS, HIPS, PP, FLEX, PA are 1..10
FilamentTable == <<sPLA, sPETG, sASA, sPC, sPVB, sABS, sHIPS, sPP, sFLEX, sPA>>
SupportedTypes == {"int", "int64", "float64", "bool", "nil", "string"}

\* C15: toFloat64 is total and reports no error: an integer and a float give
\* the same number, true gives 1 and false 0, nil gives 0, the strings PLA,
\* PETG, ASA, PC, PVB, ABS, HIPS, PP, FLEX, PA give 1..10 and --- gives -1,
\* every other string (the match is case-sensitive) and every value of an
\* unsupported type give 0.
C15_CoercionTotal ==
    Coerced =>
        /\ pout.f \in Int \X Nat
        /\ pin.value.type \in {"int", "int64"} => pout.f = Num(pin.value.i)
        /\ pin.value.type = "float64" => pout.f = pin.value.f
        /\ pin.value.type = "bool" => pout.f = Num(IF pin.value.b THEN 1 ELSE 0)
        /\ pin.value.type = "nil" => pout.f = Num(0)
        /\ pin.value.type = "string" =>
              /\ \A i \in 1..Len(FilamentTable) :
                    pin.value.s = FilamentTable[i] => pout.f = Num(i)
              /\ pin.value.s = sNone => pout.f = Num(-1)
              /\ (pin.value.s # sNone
                    /\ \A i \in 1..Len(FilamentTable) : pin.value.s # FilamentTable[i])
                  => pout.f = Num(0)
        /\ pin.value.type \notin SupportedTypes => pout.f = Num(0)

\* the string --- coerced to -1
C15_NoFilament == Coerced /\ pin.value = StringVal(sNone) /\ pout.f = Num(-1)

-----------------------------------------------------------------------------
(* Claims about the registry and process, checked under Spec. *)

TaskIds == DOMAIN tasks

\* the step of task t
Steps(t) == tasks'[t] # tasks[t]

\* a call of registerMetric that has its family and is about to set the sample
AtSet(t) == tasks[t].pc = "set"

\* a name that udp.Init put neither in the catalog nor in the registry
Fresh(n) == n # sLastPush /\ n # sLastPushTimestamp

\* C1 as stated: of the calls that create-or-get the same unseen name, one
\* registers it and every other one observes a registration conflict.
C1_OthersObserveConflict ==
    \A t \in TaskIds :
        (AtSet(t) /\ Fresh(tasks[t].metricName)) =>
            /\ Count(regOK, tasks[t].metricName) = 1
            /\ tasks[t].reg \in {"ok", "conflict"}

\* C1 amended: of the calls that create-or-get the same name, new to the
\* catalog and to the registry, in every interleaving one creates the family
\* and registers it, with success; every other one finds that family in the
\* catalog and calls Register not at all, so none observes a conflict; all
\* hold the same family, and none panics.
C1_OneFamilyOneRegistration ==
    /\ \A t \in TaskIds :
        (AtSet(t) /\ Fresh(tasks[t].metricName)) =>
            /\ tasks[t].metricName \in DOMAIN metrics
            /\ tasks[t].metric = metrics[tasks[t].metricName]
            /\ Count(regOK, tasks[t].metricName) = 1
            /\ Count(regFail, tasks[t].metricName) = 0
            /\ tasks[t].reg \in {"ok", "found"}
            /\ WithLabelValuesOK(tasks[t].metric, tasks[t].lvs)
    /\ crashed = "registerMetric" =>
            \E t \in TaskIds : tasks[t].pc = "panic" /\ ~Fresh(tasks[t].metricName)

\* two calls at once past create-or-get for one fresh name
C1_TwoCallersOneName ==
    \E t1, t2 \in TaskIds :
        /\ t1 # t2 /\ AtSet(t1) /\ AtSet(t2)
        /\ tasks[t1].metricName = tasks[t2].metricName
        /\ Fresh(tasks[t1].metricName)
        /\ tasks[t1].reg = "ok" /\ tasks[t2].reg = "found"

\* C2: once a name is in the catalog it maps, in every later state, to the
\* same family with the same label names; no family is removed or replaced.
C2_FamiliesFrozen ==
    [][\A n \in DOMAIN metrics :
          /\ n \in DOMAIN metrics'
          /\ metrics'[n] = metrics[n]
          /\ MapGet(labels', n) = MapGet(labels, n)]_vars

Range(q) == {q[i] : i \in 1..Len(q)}

\* a call that found its family, made by a point with other tags than the
\* family's label names
C2_FoundWithOtherTags ==
    \E t \in TaskIds :
        /\ AtSet(t) /\ tasks[t].reg = "found"
        /\ DOMAIN tasks[t].point.Tags # Range(tasks[t].metric.labelNames)
        /\ labels[tasks[t].metricName] = tasks[t].metric.labelNames

sV == <<"v">>
sValue == <<"v", "a", "l", "u", "e">>

NameByRule(measurement, key) ==
    IF key \in {sV, sValue} THEN measurement ELSE measurement \o <<"_">> \o key

\* C3: for every point and every field key k of it, registerMetric updates
\* the family whose name is measurement when k is v or value, and
\* measurement_k for every other key: the step that sets the sample sets it
\* in the series of the family of that name, and does not panic.
C3_MetricNameRule ==
    [][\A t \in TaskIds :
          (AtSet(t) /\ Steps(t)) =>
              LET n == NameByRule(tasks[t].point.Measurement, tasks[t].key) IN
              /\ n \in DOMAIN metrics
              /\ metrics[n].name = n
              /\ crashed' = "no"
              /\ <<metrics[n].id, tasks[t].lvs>> \in DOMAIN series'
              /\ series'[<<metrics[n].id, tasks[t].lvs>>] =
                     toFloat64(tasks[t].point.Fields[tasks[t].key])]_vars

ValidIdentifiers(e) == e.hostname.isString /\ e.client.isString

\* C7: a record that fails parsing affects only itself: the call leaves the
\* registry as it is and goes on with the records behind it, so no malformed
\* line keeps a sibling from being registered.
C7_FailedRecordOnlySkipped ==
    [][\A t \in TaskIds :
          (/\ tasks[t].pc = "line"
           /\ tasks[t].lines # <<>>
           /\ parseLineProtocol(Head(tasks[t].lines)).kind # "point"
           /\ Steps(t))
          => /\ crashed' = "no"
             /\ tasks'[t].pc = "line"
             /\ tasks'[t].lines = Tail(tasks[t].lines)
             /\ UNCHANGED <<metrics, labels, registered, series>>]_vars

\* C8: with the hostname or the client missing or no string, process drops the
\* envelope and changes nothing: no family, no sample, no last push.
C8_DroppedWithoutIdentifiers ==
    [][\A t \in TaskIds :
          (/\ tasks[t].pc = "ident"
           /\ ~ValidIdentifiers(t)
           /\ Steps(t))
          => /\ tasks'[t].pc = "done"
             /\ crashed' = "no"
             /\ UNCHANGED <<metrics, labels, registered, series, nextId>>]_vars

\* an envelope without hostname and one without client, both dropped, and no
\* sample anywhere
C8_DroppedEnvelope ==
    /\ \E t \in TaskIds : tasks[t].pc = "done" /\ ~t.hostname.isString
    /\ \E t \in TaskIds : tasks[t].pc = "done" /\ ~t.client.isString
    /\ series = EmptyMap

HostOf(ip) == IF Has(ip, ":") THEN SubSeq(ip, 1, Index(ip, ":") - 1) ELSE ip

LastPushKey(e) == <<lastPush.id, <<e.hostname.s, HostOf(e.client.s)>> >>

\* C9: for every envelope with valid identifiers process sets
\* last_push{printer_mac, printer_address} to the current time, before it
\* reads the body and whatever its records are.
C9_LastPushSet ==
    [][\A t \in TaskIds :
          (/\ tasks[t].pc = "ident"
           /\ ValidIdentifiers(t)
           /\ Steps(t))
          => /\ LastPushKey(t) \in DOMAIN series'
             /\ series'[LastPushKey(t)] = Num(now)
             /\ tasks'[t].pc = "message"]_vars

\* an envelope whose only record is malformed, handled to its end at time 1
C9_AllMalformed ==
    \E t \in TaskIds :
        /\ t = FromA(Body1(rNoEquals))
        /\ tasks[t].pc = "done"
        /\ now = 1
        /\ DOMAIN series = {LastPushKey(t)}
        /\ series[LastPushKey(t)] = Num(1)
        /\ DOMAIN metrics = {sLastPush}

\* the series a call at line 82 is about to set, and the value of its field
SeriesKey(t) == <<tasks[t].metric.id, tasks[t].lvs>>
FieldValue(t) == tasks[t].point.Fields[tasks[t].key]

\* C16: a set that goes through leaves the series of its family and label
\* tuple at the coerced value of that set, whatever it held before (nothing
\* accumulates), and leaves every other series, of the same family or of
\* another, as it was; no other step of registerMetric touches a series.
C16_LastSetWins ==
    [][\A t \in TaskIds :
          /\ (AtSet(t) /\ Steps(t) /\ tasks'[t].pc # "panic") =>
                /\ DOMAIN series' = DOMAIN series \cup {SeriesKey(t)}
                /\ series'[SeriesKey(t)] = toFloat64(FieldValue(t))
                /\ \A k \in DOMAIN series : k # SeriesKey(t) => series'[k] = series[k]
          /\ (tasks[t].pc \in {"lock", "get", "create"} /\ Steps(t)) => series' = series]_vars

\* a series set to 5 by one envelope and then to 6 by another
C16_Overwritten ==
    /\ FromA(Body1(rValue)) \in TaskIds /\ tasks[FromA(Body1(rValue))].pc = "done"
    /\ FromA(Body1(rTagged)) \in TaskIds /\ tasks[FromA(Body1(rTagged))].pc = "line"
    /\ tasks[FromA(Body1(rTagged))].lines = <<>>
    /\ \E n \in DOMAIN metrics :
          /\ n # sLastPush
          /\ Len(metrics[n].labelNames) = 2
          /\ \E k \in DOMAIN series : k[1] = metrics[n].id /\ series[k] = Num(6)
    /\ Cardinality(DOMAIN series) = 2

\* C19: after udp.Init every name of the catalog's metrics map, the seeded
\* last_push included, has its label names in the labels map, and a call
\* passes as many label values to WithLabelValues as its family has label
\* names.
C19_SchemaForEveryName ==
    /\ DOMAIN metrics \subseteq DOMAIN labels
    /\ \A t \in TaskIds :
          AtSet(t) => Len(tasks[t].lvs) = Len(tasks[t].metric.labelNames)

\* C20: an envelope with a hostname and a client whose message is missing or
\* is no string is dropped: the call that reads the message returns, and the
\* process does not crash.
C20_DroppedWithoutMessage ==
    [][\A t \in TaskIds :
          (tasks[t].pc = "message" /\ ~t.message.isString /\ Steps(t))
          => /\ crashed' = "no"
             /\ tasks'[t].pc = "done"]_vars

-----------------------------------------------------------------------------
(* Claims about the start of the exporter, checked under SpecRun. *)

\* a call of process that is inside registerMetric
InRegisterMetric(t) == tasks[t].pc \in {"lock", "get", "create", "set"}

\* C18: no envelope is handed to registerMetric before udp.Init has set the
\* registry and made the catalog maps: although Run starts the listener
\* before it calls Init, in no interleaving does a call of process reach
\* registerMetric while Init has not returned.
C18_InitBeforeRegisterMetric ==
    \A t \in TaskIds : InRegisterMetric(t) => initpc = "done"

-----------------------------------------------------------------------------
(* Claims about the syslog server, checked under SpecServer. *)

\* C17: once the server is started, Kill closes the socket and the receive
\* loop ends; every Wait that is blocked then, or is called later, returns in
\* the end; no Wait returns before Kill.
C17_KillEndsEveryWait ==
    /\ [](srv.killed => srv.socket = "closed")
    /\ srv.killed ~> (srv.loop = "stopped")
    /\ \A w \in Waiters :
          (srv.killed /\ srv.waits[w] = "blocked") ~> (srv.waits[w] = "returned")
    /\ \A w \in Waiters : [](srv.waits[w] = "returned" => srv.killed)

\* a Wait that returned after Kill while the channel still holds an envelope
C17_WaitReturned ==
    /\ srv.killed
    /\ srv.loop = "stopped"
    /\ srv.queue > 0
    /\ srv.waits[1] = "returned"
    /\ srv.waits[2] = "blocked"

-----------------------------------------------------------------------------
(* Further claims about the registry and process, checked under Spec. *)

\* C21: at most one call holds the catalog mutex; a call holds it exactly
\* from Lock() to the end of create-or-get and of the label values, so not
\* when it sets the sample, not between two fields and not when
\* registerMetric has returned; the holder can always go on to Unlock(), so
\* the calls waiting in Lock() are never stuck, and a call that sets a sample
\* keeps no other call out of the catalog.
C21_LockOnlyAcrossCreateOrGet ==
    /\ Cardinality(mu) <= 1
    /\ \A t \in TaskIds : t \in mu <=> tasks[t].pc \in {"get", "create"}
    /\ mu \subseteq TaskIds
    /\ Running => \A t \in mu : ENABLED (Get(t) \/ Create(t))
    /\ (Running /\ mu = {}) => \A t \in TaskIds : tasks[t].pc = "lock" => ENABLED Lock(t)

\* one call inside create-or-get while another is about to set its sample
C21_SetBesideHolder ==
    \E t, u \in TaskIds :
        /\ t # u
        /\ AtSet(t)
        /\ u \in mu
        /\ tasks[u].pc = "create"

\* the point's value for a label name: its tag of that name, or the empty string
TagOrEmpty(tags, name) == IF name \in DOMAIN tags THEN tags[name] ELSE <<>>

C23_ConflictSwallowed ==
    /\ [](\A n \in DOMAIN regOK \cup DOMAIN regFail :
             Count(regOK, n) + Count(regFail, n) = 1)
    /\ [][\A t \in TaskIds :
             /\ (/\ tasks[t].pc = "create"
                 /\ tasks[t].metricName \in registered
                 /\ Steps(t))
                => /\ crashed' = "no"
                   /\ tasks'[t].pc = "set"
                   /\ tasks[t].metricName \in DOMAIN metrics'
                   /\ metrics'[tasks[t].metricName] = tasks'[t].metric
                   /\ tasks[t].metricName \in DOMAIN labels'
                   /\ registered' = registered
             /\ (AtSet(t) /\ tasks[t].reg = "conflict" /\ Steps(t))
                => /\ crashed' = "no"
                   /\ SeriesKey(t) \in DOMAIN series'
                   /\ series'[SeriesKey(t)] = toFloat64(FieldValue(t))
                   /\ tasks'[t].pc = IF tasks[t].todo = {tasks[t].key}
                                     THEN "line" ELSE "lock"]_vars

\* two envelopes with the name the registry already holds, the first with a
\* second field: one refused registration, three samples set
C23_RefusedOnceAllSet ==
    /\ FromA(Body1(rTimestampTwo)) \in TaskIds
    /\ FromB(Body1(rTimestamp)) \in TaskIds
    /\ \A t \in TaskIds : tasks[t].pc = "done"
    /\ regFail = (sLastPushTimestamp :> 1)
    /\ DOMAIN regOK = {sLastPushTimestamp \o <<"_", "k">>}
    /\ metrics[sLastPushTimestamp].id # lastPush.id
    /\ Cardinality({k \in DOMAIN series : k[1] = metrics[sLastPushTimestamp].id}) = 2
    /\ Cardinality(DOMAIN series) = 5

\* the order the claims give the records of an envelope: the lines behind the
\* first one, then the first one without its leading token, each rewritten
ClaimedOrder(e) ==
    LET ls == Split(e.message.s, "\n")
    IN [i \in 1..Len(ls) |->
           rewriteLine(IF i < Len(ls) THEN ls[i + 1] ELSE Stripped(ls[1]),
                       pin.prefix, e.hostname.s, e.client.s)]

\* the series a point updates, by the frozen schemas of the catalog, and the
\* values of the fields that target each (one, unless the point has both v
\* and value)
PointSeries(p, k) ==
    LET m == metrics[NameByRule(p.Measurement, k)]
    IN <<m.id, [i \in 1..Len(m.labelNames) |-> TagOrEmpty(p.Tags, m.labelNames[i])]>>

PointUpdates(p) ==
    LET ks == {k \in DOMAIN p.Fields : NameByRule(p.Measurement, k) \in DOMAIN metrics}
    IN [sk \in {PointSeries(p, k) : k \in ks} |->
           {toFloat64(p.Fields[k]) : k \in {x \in ks : PointSeries(p, x) = sk}}]

\* the updates of the records lines[i..], each overriding the ones before it
RECURSIVE ExpectedAfter(_, _, _)
ExpectedAfter(lines, i, acc) ==
    IF i > Len(lines) THEN acc
    ELSE LET p == parseLineProtocol(lines[i])
         IN ExpectedAfter(lines, i + 1,
                IF p.kind = "point" THEN PointUpdates(p) @@ acc ELSE acc)

\* no other envelope of the run comes from the device of e
Alone(e) == \A o \in TaskIds : o # e => o.hostname # e.hostname

\* C24: the records of one envelope are taken one after the other by the one
\* task of the envelope, in rotated order (the lines behind the first, then
\* the stripped first line), each registered before the next one is read; so
\* once the envelope is done every series its records updated holds the value
\* of the last record, in that order, that targets it, and the stripped first
\* line overrides the body lines behind it.
C24_LastRecordWins ==
    /\ [](\A t \in TaskIds :
            (tasks[t].pc = "done" /\ ValidIdentifiers(t) /\ t.message.isString /\ Alone(t)) =>
                LET expected == ExpectedAfter(ClaimedOrder(t), 1, EmptyMap)
                IN \A sk \in DOMAIN expected :
                      sk \in DOMAIN series /\ series[sk] \in expected[sk])
    /\ [][\A t \in TaskIds :
            /\ (tasks[t].pc = "message" /\ Steps(t) /\ tasks'[t].pc # "panic") =>
                  tasks'[t].lines = ClaimedOrder(t)
            /\ (tasks[t].pc = "line" /\ Steps(t) /\ tasks[t].lines # <<>>) =>
                  \/ tasks'[t].pc = "panic"
                  \/ tasks'[t].lines = Tail(tasks[t].lines)
            /\ (tasks[t].pc \in {"lock", "get", "create", "set"} /\ Steps(t)) =>
                  \/ tasks'[t].pc = "panic"
                  \/ tasks'[t].lines = tasks[t].lines]_vars

\* the envelope "7 m v=5\nm v=6" is done and its series holds 5, the value
\* of the first line
C24_FirstLineOverrides ==
    /\ FromA(Body2(rValue, rSix)) \in TaskIds
    /\ tasks[FromA(Body2(rValue, rSix))].pc = "done"
    /\ \E n \in DOMAIN metrics :
          /\ Len(metrics[n].labelNames) = 2
          /\ \E sk \in DOMAIN series :
                /\ sk[1] = metrics[n].id
                /\ \E i \in 1..2 : sk[2][i] = <<"A">>
                /\ series[sk] = Num(5)

\* the label values of the call of task t name the device of its envelope
OwnIdentity(t) ==
    LET names == tasks[t].metric.labelNames
    IN /\ \E i \in 1..Len(names) : names[i] = <<"printer_mac">>
       /\ \E i \in 1..Len(names) : names[i] = <<"printer_address">>
       /\ \A i \in 1..Len(names) :
             /\ names[i] = <<"printer_mac">> => tasks[t].lvs[i] = t.hostname.s
             /\ names[i] = <<"printer_address">> => tasks[t].lvs[i] = HostOf(t.client.s)

\* C26: every series set from an envelope is one of a family that has the
\* labels printer_mac and printer_address, and carries the envelope's
\* deviceId and the host part of its source address under them, whatever tags
\* the record's own text holds.
C26_SeriesUnderOwnIdentity ==
    \A t \in TaskIds :
        (AtSet(t) /\ WithLabelValuesOK(tasks[t].metric, tasks[t].lvs)) => OwnIdentity(t)

\* the same for the envelopes whose body holds no double quote
C26_UnquotedUnderOwnIdentity ==
    \A t \in TaskIds :
        (AtSet(t) /\ WithLabelValuesOK(tasks[t].metric, tasks[t].lvs)
                  /\ ~Has(t.message.s, "\"")) => OwnIdentity(t)

------------------------------------------------------------------------------
(* Further claims about pure functions, checked under SpecParse. *)

RegisterRun == pin.op = "register" /\ pout.done
RegisterPoint == parseLineProtocol(rewriteLine(pin.text, pin.prefix, pin.mac, pin.ip))

\* C25: what registerMetric(p) leaves exposed is a function of the registry
\* before the call and of p: the call ends with the samples that every other
\* order of the fields and every other order of the tags would have ended
\* with, a point with both a v and a value field included.
C25_OrderIrrelevant ==
    RegisterRun =>
        \A keys \in Orders(DOMAIN RegisterPoint.Fields) :
        \A tagLabels \in getLabels(RegisterPoint.Tags) :
            pout.samples = exposed(registerMetricIn(RegistryBefore(pin), RegisterPoint, keys,
                                       [k \in DOMAIN RegisterPoint.Fields |-> tagLabels]))

\* the same without the points that have both v and value
C25_OrderIrrelevantOneValue ==
    (RegisterRun /\ ~({sV, sValue} \subseteq DOMAIN RegisterPoint.Fields)) => C25_OrderIrrelevant

SplitDone == pin.op = "split" /\ pout.done

\* the positions of s that separate: the spaces met outside quotes, where a
\* backslash takes the character behind it out of the reading and every
\* other double quote opens or closes
RECURSIVE Separators(_, _, _)
Separators(s, i, quoted) ==
    IF i > Len(s) THEN {}
    ELSE IF s[i] = "\\" THEN Separators(s, i + 2, quoted)
    ELSE IF s[i] = "\"" THEN Separators(s, i + 1, ~quoted)
    ELSE IF s[i] = " " /\ ~quoted THEN {i} \cup Separators(s, i + 1, quoted)
    ELSE Separators(s, i + 1, quoted)

\* the maximal runs of positions without a separator, as <<first, last>>
Runs(s) ==
    LET sep == Separators(s, 1, FALSE)
    IN {run \in (1..Len(s)) \X (1..Len(s)) :
           /\ run[1] <= run[2]
           /\ \A i \in run[1]..run[2] : i \notin sep
           /\ run[1] = 1 \/ (run[1] - 1) \in sep
           /\ run[2] = Len(s) \/ (run[2] + 1) \in sep}

\* C27: splitLine returns the maximal runs of characters between separating
\* spaces, in their order and without the empty ones; a space separates when
\* it is read in the Normal state, a backslash takes the next character out
\* of the reading in both states, a double quote changes the state, and a
\* backslash or an open quote at the end of the string ends the scan there.
C27_RunsBetweenSeparators ==
    SplitDone =>
        /\ Len(pout.lines) = Cardinality(Runs(pin.text))
        /\ \A run \in Runs(pin.text) :
              pout.lines[Cardinality({q \in Runs(pin.text) : q[1] <= run[1]})] =
                  SubSeq(pin.text, run[1], run[2])

\* the string `" " \`: a quoted space, a separating space and a backslash at
\* the end
C27_QuotedSpaceKept ==
    /\ SplitDone
    /\ pin.text = <<"\"", " ", "\"", " ", "\\">>
    /\ pout.lines = << <<"\"", " ", "\"">>, <<"\\">> >>

NoComma(s) == ~Has(s, ",")

\* C28: both segments are cut at every comma, the commas between double
\* quotes included: a parsed point has no comma in its measurement, in a tag
\* key or value, in a field key or in a string field value, what follows a
\* comma of the first segment up to its = is a tag key and what follows a
\* comma of the second up to its = is a field key, and the record m a="x,y"
\* is refused as an invalid field.
C28_CutAtEveryComma ==
    Parsed =>
        /\ pout.point.kind = "point" =>
              /\ NoComma(pout.point.Measurement)
              /\ \A k \in DOMAIN pout.point.Tags :
                    NoComma(k) /\ NoComma(pout.point.Tags[k])
              /\ \A k \in DOMAIN pout.point.Fields :
                    /\ NoComma(k)
                    /\ pout.point.Fields[k].type = "string" => NoComma(pout.point.Fields[k].s)
              /\ LET first == splitLine(pin.text)[1]
                     second == splitLine(pin.text)[2]
                 IN /\ \A i \in 1..Len(second) : second[i] = "," =>
                          KeyOf(SubSeq(second, i + 1, Len(second))) \in DOMAIN pout.point.Fields
                    /\ \A i \in 1..Len(first) : first[i] = "," =>
                          KeyOf(SubSeq(first, i + 1, Len(first))) \in DOMAIN pout.point.Tags
        /\ pin.text = rQuotedComma =>
              pout.point.kind = "error" /\ pout.point.err = "invalid field format"

\* the record m a="x,b=y" is parsed, with the two fields a and b
C28_QuoteCutInTwo ==
    /\ Parsed
    /\ pin.text = <<"m", " ", "a", "=", "\"", "x", ",", "b", "=", "y", "\"">>
    /\ pout.point.kind = "point"
    /\ DOMAIN pout.point.Fields = {<<"a">>, <<"b">>}
    /\ pout.point.Fields[<<"a">>] = StringVal(<<"\"", "x">>)
    /\ pout.point.Fields[<<"b">>] = StringVal(<<"y", "\"">>)

------------------------------------------------------------------------------
(* Claims about EnableUDPmetrics, checked under SpecEnable. *)

IsPrefix(q, r) == Len(q) <= Len(r) /\ \A i \in 1..Len(q) : q[i] = r[i]

\* the printer took the file
Uploaded(i) == udpEnable.call[i].upload = "created"
\* sendGcode returned a nil error
Answered(i) == udpEnable.call[i].upload \in {"created", "refused"}

EnableClaim(ok(_)) ==
    /\ \A i \in PrinterIds :
          /\ IsPrefix(udpEnable.call[i].requests, <<"DELETE", "PUT", "POST">>)
          /\ Len(udpEnable.call[i].requests) = 3 => ok(i)
          /\ udpEnable.call[i].pc = "done" =>
                /\ ok(i) => Len(udpEnable.call[i].requests) = 3
                /\ udpEnable.flag[i] <=> (ok(i) /\ udpEnable.call[i].start = "204")
    /\ udpEnable.pc = "returned" => \A i \in PrinterIds : udpEnable.call[i].pc = "done"

\* C29: each printer gets the requests DELETE, PUT, POST in this order, three
\* when the upload succeeds; the POST is sent only after a successful upload;
\* when the goroutine of a printer is over its UDPMetricsEnabled is true if
\* and only if the upload succeeded and the start was answered with 204; and
\* EnableUDPmetrics returns only when every goroutine is over.
C29_StartOnlyAfterUpload == EnableClaim(Uploaded)

\* the same with an upload counted as successful as soon as the PUT was
\* answered, whatever the status
C29_StartOnlyAfterAnswer == EnableClaim(Answered)

------------------------------------------------------------------------------
(* Claims about Collect, checked under SpecCollect. *)

IsUp(sample) == sample.name = "prusa_up"
UpSamples(i) == SelectSeq(scrape.ch[i], IsUp)

\* the samples of a printer that answers, up to prusa_status_info
NotDisabled(sample) == sample.name \notin scrape.disabled
ExpectedTelemetry == SelectSeq(Telemetry, NotDisabled)

\* C30: a call of Collect sends exactly one prusa_up sample per printer, when
\* the goroutine of the printer ends: 0 and nothing else when the job, the
\* printer or the version endpoint failed, 1 otherwise, behind the samples of
\* the enabled metrics; Collect returns only when every goroutine has ended;
\* and what one goroutine does leaves the samples of the others alone.
C30_OneUpPerPrinter ==
    /\ [](/\ \A i \in PrinterIds :
                /\ scrape.call[i].pc # "done" => UpSamples(i) = <<>>
                /\ scrape.call[i].pc = "done" =>
                      /\ Len(UpSamples(i)) = 1
                      /\ scrape.call[i].failed \in {"job", "printer", "version"} =>
                            scrape.ch[i] = <<Sample("prusa_up", "", "0")>>
                      /\ scrape.call[i].failed = "none" =>
                            /\ scrape.ch[i][Len(scrape.ch[i])] = Sample("prusa_up", "", "1")
                            /\ SubSeq(scrape.ch[i], 1, Len(ExpectedTelemetry)) = ExpectedTelemetry
                            /\ Len(scrape.ch[i]) - Len(ExpectedTelemetry) \in {1, 2}
          /\ scrape.pc = "returned" => \A i \in PrinterIds : scrape.call[i].pc = "done")
    /\ [][\A i, j \in PrinterIds :
            (i # j /\ scrape'.call[i] # scrape.call[i]) => scrape'.ch[j] = scrape.ch[j]]_vars

\* Collect has returned; the first printer failed at the version endpoint, the
\* second answered, with an error at the status or info endpoint, and the
\* configuration lists prusa_up among the disabled metrics
C30_OneDownOneUp ==
    /\ scrape.pc = "returned"
    /\ "prusa_up" \in scrape.disabled
    /\ scrape.call[1].failed = "version"
    /\ scrape.ch[1] = <<Sample("prusa_up", "", "0")>>
    /\ scrape.call[2].failed = "none" /\ scrape.call[2].partial
    /\ UpSamples(2) = <<Sample("prusa_up", "", "1")>>
    /\ Len(scrape.ch[2]) > 10

====
